---- MODULE Spec2Model ----
(***************************************************************************)
(* A model of the i3X server patterns documented in this repository: the    *)
(* SubscriptionRepository and its Flask endpoints (Pattern 8 of the         *)
(* implementation patterns), the object store behind /objects/from-type,    *)
(* and the pieces of the engine that the documentation describes only in    *)
(* prose (the change fan-out, the bounded queue, relink).                   *)
(***************************************************************************)
EXTENDS Integers, Sequences, FiniteSets, TLC

\* ------------------------------------------------------------------ bounds
MaxSubs == 2          \* subscriptions ever created (uuid4 ids are never reused)
MaxItems == 2         \* length of a monitored_items list
MaxWrites == 3        \* writeValue calls of the delivery specification
MaxLifecycleWrites == 1   \* writeValue calls of the lifecycle specification
MaxObjects == 3       \* objects ever created in the graph specification
MaxPublished == 3     \* events published in the concurrent specification
MaxSyncs == 2         \* sync requests of the concurrent specification
MaxRelinks == 2       \* relinks each thread performs in the relink specification
MaxValueWrites == 2   \* ValuePoints written in the value specification
MaxTime == 2          \* timestamps of the ValuePoints written: 1..MaxTime
MaxHistPoints == 2    \* points of the time series of the history specification
MaxHistTime == 3      \* times of the history specification: 0..MaxHistTime
MaxHistValue == 2     \* values of the points of the time series: 1..MaxHistValue
MaxInterval == 2      \* aggregation intervals: 1..MaxInterval
QueueCapacity == 2    \* capacity C of a subscription queue
MaxStreamEvents == 3  \* change events of the stream specification
IdleTimeout == 2      \* idle ticks after which a subscription may expire
MaxFanoutEvents == 3  \* change events of the fan-out specification
MaxAggPoints == 2     \* points handed to the aggregation specification
MaxCalls == 3         \* throttle() calls of the rate limiter specification
MaxClock == 4         \* the clock of the rate limiter specification: 0..MaxClock
maxRequests == 1      \* RateLimiter.maxRequests of the specification
windowMs == 2         \* RateLimiter.windowMs of the specification
MaxRetries == 3       \* the largest maxRetries handed to fetchWithBackoff
MaxEntities == 3      \* entities ever created in the entity specification

\* The default of register_items' max_depth parameter.
DefaultMaxDepth == 1

\* get_entity_data: "Default time range: last hour"; time is counted in hours.
DefaultWindow == 1

Null == "null"

\* Identifiers a client may name: two objects of the store and one id that
\* resolves to nothing.
ObjectIds == {"line1", "pump1"}
ElementIds == ObjectIds \cup {"nosuch"}
SubIds == 1..MaxSubs
Depths == {0, 1}

\* elementIds lists of a register / unregister body, the empty list included.
SingleBatches == {<<>>} \cup {<<a>> : a \in ObjectIds}
Batches == {<<>>} \cup {<<a>> : a \in ElementIds}
             \cup {p \in ElementIds \X ElementIds : p[1] # p[2]}

VARIABLES
  subscriptions,   \* SubscriptionRepository.subscriptions: sub_id -> record
  nextSub,         \* number of ids handed out so far
  droppedCount,    \* per subscription: events dropped on overflow
  parentOf,        \* object store: elementId -> parentId (Null for a root)
  writes,          \* number of writeValue calls so far (stamps the events)
  last,            \* the last request and its response
  pending,         \* history: events fanned out to a subscription since its last sync
  lastSeq,         \* history: per subscription and object, the stamp of the newest event a sync returned
  watch,           \* history: (elementId, maxDepth) pairs registered and not unregistered
  nextObj,         \* object store: number of elementIds generated so far
  glast,           \* the last object-graph request and its response
  heap,            \* concurrent: the list objects, by identity
  qref,            \* concurrent: the list the subscription's 'queue' key refers to
  syncer,          \* concurrent: the request thread inside get_and_clear_queue
  publisher,       \* concurrent: the fan-out thread inside an enqueue
  published,       \* concurrent: number of events whose enqueue completed
  returned,        \* concurrent history: the events the sync responses carried
  overflowed,      \* concurrent history: the events dropped as oldest on overflow
  isComposition,   \* object store: elementId -> the stored isComposition flag
  relinker,        \* relink threads: position, arguments and outcome of each
  graphLock,       \* relink threads: the holder of the graph lock, Null when free
  types,           \* ObjectTypeRegistry.types: elementId -> type definition
  tlast,           \* the last registry request and its response
  points,          \* value store: elementId -> the ValuePoints written, in write order
  vlast,           \* the last value-store request and its response
  hlast,           \* the last history request and its response
  hpoints,         \* history: the stored time series of the entity line1
  edges,           \* relationships: elementId -> the elementIds it is related to
  rlast,           \* the last /objects/related request and its response
  slast,           \* the last schema request and its response
  sstate,          \* stream: sub_id -> None, Active, Closed or Expired
  connected,       \* stream: sub_id -> whether its stream channel is open
  idle,            \* stream: sub_id -> ticks since its last sync or stream activity
  squeue,          \* stream: sub_id -> its bounded queue of events
  emitted,         \* stream: number of change events published so far
  stlast,          \* stream: the last operation and what it pushed or returned
  inbox,           \* fan-out: sub_id -> events published and not yet dispatched
  fqueue,          \* fan-out: sub_id -> its bounded queue
  fpushed,         \* fan-out: sub_id -> the events its consumer has received
  stalled,         \* fan-out: sub_id -> whether its consumer has stopped reading
  accepted,        \* fan-out history: sub_id -> events enqueued or pushed for it
  fcount,          \* fan-out: number of events published so far
  entities,        \* entity store: entity id -> the stored entity
  nextEntity,      \* entity store: number of ids generated so far
  shadow,          \* entity history: id -> the displayName the responses imply
  elast,           \* the last entity request and its response
  alast,           \* the last aggregation call and its result
  apoints,         \* aggregation: the data points handed to the call
  requests,        \* RateLimiter.requests: the times pushed by the calls let through
  clock,           \* rate limiter: Date.now()
  calls,           \* rate limiter: throttle() call -> its position, 'now' and timer
  resolved,        \* rate limiter history: the times at which throttle() resolved
  blast            \* the fetchWithBackoff call: its position, loop index and history

subVars == <<subscriptions, nextSub, droppedCount, writes, last, pending,
             lastSeq, watch>>
graphVars == <<nextObj, glast, isComposition>>
concVars == <<heap, qref, syncer, publisher, published, returned, overflowed>>
relinkVars == <<relinker, graphLock>>
typeVars == <<types, tlast>>
valueVars == <<points, vlast>>
histVars == <<hlast, hpoints>>
relatedVars == <<edges, rlast>>
streamVars == <<sstate, connected, idle, squeue, emitted, stlast>>
fanoutVars == <<inbox, fqueue, fpushed, stalled, accepted, fcount>>
entityVars == <<entities, nextEntity, shadow, elast>>
aggVars == <<alast, apoints>>
limiterVars == <<requests, clock, calls, resolved>>
backoffVars == <<blast>>
moreVars == <<streamVars, fanoutVars, entityVars, aggVars, limiterVars,
              backoffVars>>
extVars == <<relatedVars, slast, moreVars>>
auxVars == <<relinkVars, typeVars, valueVars, histVars, extVars>>

vars == <<subVars, parentOf, graphVars, concVars, auxVars>>

\* What the operations on the stream, fan-out, entity, aggregation, rate
\* limiter and backoff state leave alone.
coreVars == <<subVars, parentOf, graphVars, concVars, relinkVars, typeVars,
              valueVars, histVars, relatedVars, slast>>

\* ------------------------------------------------------------ sequences
Range(s) == {s[i] : i \in 1..Len(s)}

RECURSIVE SelectNotIn(_, _)
\* [e for e in s if e not in ids]
SelectNotIn(s, ids) ==
  IF s = <<>> THEN <<>>
  ELSE IF Head(s) \in ids THEN SelectNotIn(Tail(s), ids)
       ELSE <<Head(s)>> \o SelectNotIn(Tail(s), ids)

LastN(s, n) == IF Len(s) <= n THEN s ELSE SubSeq(s, Len(s) - n + 1, Len(s))

\* ------------------------------------------------- SubscriptionRepository
NewSubscription == [monitored_items |-> <<>>, queue |-> <<>>]

create_subscription(subs, id) ==
  [t \in DOMAIN subs \cup {id} |-> IF t = id THEN NewSubscription ELSE subs[t]]

\* Optional[Dict]: a sequence holding the record, empty for None.
get_subscription(subs, s) == IF s \in DOMAIN subs THEN <<subs[s]>> ELSE <<>>

delete_subscription(subs, s) ==
  IF s \in DOMAIN subs
  THEN [ret |-> TRUE, subs |-> [t \in DOMAIN subs \ {s} |-> subs[t]]]
  ELSE [ret |-> FALSE, subs |-> subs]

register_items(subs, s, ids, max_depth) ==
  IF s \in DOMAIN subs
  THEN [subs EXCEPT ![s].monitored_items = @ \o ids]
  ELSE subs

unregister_itemsClears(subs, s, ids) ==
  IF s \in DOMAIN subs
  THEN [subs EXCEPT ![s].monitored_items = <<>>]
  ELSE subs

unregister_items(subs, s, ids) ==
  IF s \in DOMAIN subs
  THEN [subs EXCEPT ![s].monitored_items = SelectNotIn(@, Range(ids))]
  ELSE subs

RECURSIVE Reverse(_)
Reverse(s) == IF s = <<>> THEN <<>> ELSE Append(Reverse(Tail(s)), Head(s))

get_and_clear_queueReversed(subs, s) ==
  IF s \in DOMAIN subs
  THEN [ret |-> Reverse(subs[s].queue), subs |-> [subs EXCEPT ![s].queue = <<>>]]
  ELSE [ret |-> <<>>, subs |-> subs]

get_and_clear_queueKeeps(subs, s) ==
  IF s \in DOMAIN subs
  THEN [ret |-> subs[s].queue, subs |-> subs]
  ELSE [ret |-> <<>>, subs |-> subs]

get_and_clear_queue(subs, s) ==
  IF s \in DOMAIN subs
  THEN [ret |-> subs[s].queue, subs |-> [subs EXCEPT ![s].queue = <<>>]]
  ELSE [ret |-> <<>>, subs |-> subs]

\* ------------------------------------------------------ change fan-out
RECURSIVE AncestorAt(_, _, _)
\* The object k levels above x in the parent graph, Null past a root.
AncestorAt(par, x, k) ==
  IF k = 0 THEN x
  ELSE LET p == AncestorAt(par, x, k - 1)
       IN IF p \in DOMAIN par THEN par[p] ELSE Null

\* An entry (a, maxDepth) covers x: a itself, or a descendant of a within the
\* depth bound (0 = unbounded, 1 = no recursion into children, N = N levels).
Reaches(par, a, maxDepth, x) ==
  \/ a = x
  \/ \E k \in 1..Cardinality(DOMAIN par) :
       /\ AncestorAt(par, x, k) = a
       /\ (maxDepth = 0 \/ k <= maxDepth - 1)

\* monitored_items holds elementIds only: register_items records no depth,
\* so every entry stands with the default depth.
Watches(par, items, x) ==
  \E i \in 1..Len(items) : Reaches(par, items[i], DefaultMaxDepth, x)

\* Bounded FIFO queue, drop-oldest on overflow.
Overflows(q) == Len(q) >= QueueCapacity

Enqueue(q, ev) == IF Overflows(q) THEN Append(Tail(q), ev) ELSE Append(q, ev)

\* ------------------------------------------------------------- requests
Request(op, s, ids, depth, elem) ==
  [op |-> op, sub |-> s, ids |-> ids, depth |-> depth, elem |-> elem]

Response(status, detail, count, updates) ==
  [status |-> status, detail |-> detail, count |-> count, updates |-> updates]

RECURSIVE NewestSeq(_, _)
\* The newest stamp per object once the events of q are returned too.
NewestSeq(newest, q) ==
  IF q = <<>> THEN newest
  ELSE NewestSeq([newest EXCEPT ![Head(q).elementId] =
                    IF Head(q).seq > @ THEN Head(q).seq ELSE @], Tail(q))

NoRequest == Request("none", 0, <<>>, 0, Null)

Answer(req, resp) == [req |-> req, resp |-> resp]

Resolvable(ids) == {e \in Range(ids) : e \in DOMAIN parentOf}

InitSubscriptions ==
  /\ subscriptions = <<>>
  /\ nextSub = 0
  /\ droppedCount = [s \in SubIds |-> 0]
  /\ writes = 0
  /\ last = Answer(NoRequest, Response(0, "none", 0, <<>>))
  /\ pending = [s \in SubIds |-> <<>>]
  /\ lastSeq = [s \in SubIds |-> [o \in ObjectIds |-> 0]]
  /\ watch = [s \in SubIds |-> {}]

\* An object has a child: some object's parentId names it.
HasChild(par, o) == \E c \in DOMAIN par : par[c] = o

InitGraph ==
  /\ nextObj = 0
  /\ glast = [op |-> "none", elem |-> Null, parent |-> Null, status |-> 0,
              error |-> "none"]
  /\ isComposition = [o \in DOMAIN parentOf |-> HasChild(parentOf, o)]

InitConcurrent ==
  /\ heap = <<<<>>>>
  /\ qref = 1
  /\ syncer = [pc |-> "idle", queue |-> 0, syncs |-> 0]
  /\ publisher = [pc |-> "idle", queue |-> 0]
  /\ published = 0
  /\ returned = <<>>
  /\ overflowed = {}

RelinkThreads == {"t1", "t2"}

IdleRelinker ==
  [pc |-> "idle", elem |-> Null, parent |-> Null, status |-> 0, done |-> 0]

InitRelinkers ==
  /\ relinker = [t \in RelinkThreads |-> IdleRelinker]
  /\ graphLock = Null

InitRegistry ==
  /\ types = <<>>
  /\ tlast = [op |-> "none", elem |-> Null, base |-> Null, status |-> 0,
              error |-> "none"]

InitValues ==
  /\ points = [o \in DOMAIN parentOf |-> <<>>]
  /\ vlast = [op |-> "none", elem |-> Null, depth |-> 0, status |-> 0,
              value |-> {}]

NoHistoryRequest ==
  [op |-> "none", status |-> 0, error |-> "none", start |-> <<>>,
   end |-> <<>>, interval |-> 0, method |-> "none", path |-> "none",
   rows |-> <<>>]

InitHistory ==
  /\ hlast = NoHistoryRequest
  /\ hpoints = <<>>

NoRelatedRequest ==
  [op |-> "none", ids |-> <<>>, rel |-> Null, depth |-> 0, status |-> 0,
   rows |-> <<>>]

InitRelated ==
  /\ edges = [o \in DOMAIN parentOf |-> {}]
  /\ rlast = NoRelatedRequest

NoSchemaRequest ==
  [op |-> "none", elem |-> Null, raised |-> FALSE, properties |-> <<>>,
   attributes |-> <<>>]

\* ------------------------------------------------- subscription state machine
\* The state machine of a Subscription, Created -> Active -> (Closed |
\* Expired), with its stream channel and its idle clock.

StreamEvents == 1..MaxStreamEvents

StreamAnswer(op, s, items) ==
  [op |-> op, sub |-> s, items |-> items, targets |-> {}]

NoStreamRequest == StreamAnswer("none", 0, <<>>)

InitStreamState ==
  /\ sstate = [s \in SubIds |-> "None"]
  /\ connected = [s \in SubIds |-> FALSE]
  /\ idle = [s \in SubIds |-> 0]
  /\ squeue = [s \in SubIds |-> <<>>]
  /\ emitted = 0
  /\ stlast = NoStreamRequest

InitStream ==
  InitStreamState

InitFanout ==
  /\ inbox = [s \in SubIds |-> <<>>]
  /\ fqueue = [s \in SubIds |-> <<>>]
  /\ fpushed = [s \in SubIds |-> <<>>]
  /\ stalled = [s \in SubIds |-> FALSE]
  /\ accepted = [s \in SubIds |-> {}]
  /\ fcount = 0

\* The ids create_entity hands out, in order.
EntityPool == <<"e1", "e2", "e3", "e4", "e5">>

EntityIds == {EntityPool[i] : i \in 1..MaxEntities}

DisplayNames == {"Pump", "Updated"}

EntityAnswer(op, id, status, name) ==
  [op |-> op, id |-> id, status |-> status, displayName |-> name]

InitEntities ==
  /\ entities = <<>>
  /\ nextEntity = 0
  /\ shadow = [e \in EntityIds |-> <<>>]
  /\ elast = EntityAnswer("none", Null, 0, Null)

NoAggregation ==
  [op |-> "none", method |-> "none", interval |-> 0, rows |-> <<>>]

InitAggregation ==
  /\ alast = NoAggregation
  /\ apoints = <<>>

CallIds == 1..MaxCalls

NotCalled == [pc |-> "idle", now |-> 0, wakeAt |-> 0]

InitLimiter ==
  /\ requests = <<>>
  /\ clock = 0
  /\ calls = [c \in CallIds |-> NotCalled]
  /\ resolved = <<>>

NotFetching ==
  [pc |-> "idle", maxRetries |-> 0, i |-> 0, statuses |-> <<>>,
   delays |-> <<>>, status |-> 0, error |-> "none"]

InitBackoff ==
  /\ blast = NotFetching

InitMore ==
  /\ InitStream
  /\ InitFanout
  /\ InitEntities
  /\ InitAggregation
  /\ InitLimiter
  /\ InitBackoff

InitExt ==
  /\ InitRelated
  /\ slast = NoSchemaRequest
  /\ InitMore

InitAux ==
  /\ InitRelinkers
  /\ InitRegistry
  /\ InitValues
  /\ InitHistory
  /\ InitExt

\* The store holds line1 and its child pump1; no subscription exists.
Init ==
  /\ InitSubscriptions
  /\ parentOf = [o \in ObjectIds |-> IF o = "pump1" THEN "line1" ELSE Null]
  /\ InitGraph
  /\ InitConcurrent
  /\ InitAux

\* POST /subscriptions
CreateSubscription ==
  /\ nextSub < MaxSubs
  /\ LET id == nextSub + 1 IN
       /\ subscriptions' = create_subscription(subscriptions, id)
       /\ nextSub' = id
       /\ last' = Answer(Request("create", id, <<>>, 0, Null),
                         Response(201, "none", 0, <<>>))
  /\ UNCHANGED <<graphVars, concVars, auxVars, droppedCount, parentOf, writes, pending, lastSeq, watch>>

\* GET /subscriptions/<sub_id>
GetSubscription ==
  \E s \in SubIds :
    /\ last' = Answer(Request("get", s, <<>>, 0, Null),
                      IF get_subscription(subscriptions, s) = <<>>
                      THEN Response(404, "not_found", 0, <<>>)
                      ELSE Response(200, "none", 0, <<>>))
    /\ UNCHANGED <<graphVars, concVars, auxVars, subscriptions, nextSub, droppedCount, parentOf, writes,
                   pending, lastSeq, watch>>

\* DELETE /subscriptions/<sub_id>
DeleteSubscription ==
  \E s \in SubIds :
    LET r == delete_subscription(subscriptions, s) IN
      /\ subscriptions' = r.subs
      /\ last' = Answer(Request("delete", s, <<>>, 0, Null),
                        IF r.ret THEN Response(204, "none", 0, <<>>)
                        ELSE Response(404, "not_found", 0, <<>>))
      /\ droppedCount' = [droppedCount EXCEPT ![s] = 0]
      /\ pending' = [pending EXCEPT ![s] = <<>>]
      /\ watch' = [watch EXCEPT ![s] = {}]
      /\ UNCHANGED <<graphVars, concVars, auxVars, nextSub, parentOf, writes, lastSeq>>

\* POST /subscriptions/<sub_id>/register
RegisterMonitoredItems(batches, depths) ==
  \E s \in SubIds, ids \in batches, depth \in depths :
    LET req == Request("register", s, ids, depth, Null) IN
      \/ /\ ids = <<>>
         /\ last' = Answer(req, Response(422, "value_error", 0, <<>>))
         /\ UNCHANGED <<graphVars, concVars, auxVars, subscriptions, nextSub, droppedCount, parentOf, writes,
                        pending, lastSeq, watch>>
      \/ /\ ids # <<>>
         /\ s \in DOMAIN subscriptions =>
              Len(subscriptions[s].monitored_items) + Len(ids) <= MaxItems
         /\ subscriptions' = register_items(subscriptions, s, ids, depth)
         /\ last' = Answer(req, Response(200, "registered", Len(ids), <<>>))
         /\ watch' = IF s \in DOMAIN subscriptions
                     THEN [watch EXCEPT ![s] =
                             @ \cup {<<e, depth>> : e \in Resolvable(ids)}]
                     ELSE watch
         /\ UNCHANGED <<graphVars, concVars, auxVars, nextSub, droppedCount, parentOf, writes, pending,
                        lastSeq>>

\* POST /subscriptions/<sub_id>/unregister
UnregisterMonitoredItems(batches) ==
  \E s \in SubIds, ids \in batches :
    /\ subscriptions' = unregister_items(subscriptions, s, ids)
    /\ last' = Answer(Request("unregister", s, ids, 0, Null),
                      Response(200, "unregistered", Len(ids), <<>>))
    /\ watch' = [watch EXCEPT ![s] = {p \in @ : p[1] \notin Range(ids)}]
    /\ UNCHANGED <<graphVars, concVars, auxVars, nextSub, droppedCount, parentOf, writes, pending, lastSeq>>

\* POST /subscriptions/<sub_id>/sync
SubscriptionSync ==
  \E s \in SubIds :
    LET r == get_and_clear_queue(subscriptions, s) IN
      /\ subscriptions' = r.subs
      /\ last' = Answer(Request("sync", s, <<>>, 0, Null),
                        Response(200, "none", 0, r.ret))
      /\ pending' = [pending EXCEPT ![s] = <<>>]
      /\ lastSeq' = [lastSeq EXCEPT ![s] = NewestSeq(@, r.ret)]
      /\ UNCHANGED <<graphVars, concVars, auxVars, nextSub, droppedCount, parentOf, writes, watch>>

\* PUT /objects/<element_id>/value, and the fan-out of its change event to
\* every subscription that watches the object.
WriteValue(maxWrites) ==
  \E x \in ElementIds :
    LET req == Request("write", 0, <<>>, 0, x) IN
      \/ /\ x \notin DOMAIN parentOf
         /\ last' = Answer(req, Response(404, "not_found", 0, <<>>))
         /\ UNCHANGED <<graphVars, concVars, auxVars, subscriptions, nextSub, droppedCount, parentOf, writes,
                        pending, lastSeq, watch>>
      \/ /\ x \in DOMAIN parentOf
         /\ writes < maxWrites
         /\ LET ev == [elementId |-> x, seq |-> writes + 1]
                hit == {s \in DOMAIN subscriptions :
                          Watches(parentOf, subscriptions[s].monitored_items, x)}
            IN /\ writes' = writes + 1
               /\ subscriptions' =
                    [s \in DOMAIN subscriptions |->
                       IF s \in hit
                       THEN [subscriptions[s] EXCEPT !.queue = Enqueue(@, ev)]
                       ELSE subscriptions[s]]
               /\ droppedCount' =
                    [s \in SubIds |->
                       IF s \in hit /\ Overflows(subscriptions[s].queue)
                       THEN droppedCount[s] + 1 ELSE droppedCount[s]]
               /\ pending' = [s \in SubIds |->
                                IF s \in hit THEN Append(pending[s], ev)
                                ELSE pending[s]]
               /\ last' = Answer(req, Response(200, "none", 0, <<>>))
         /\ UNCHANGED <<graphVars, concVars, auxVars, nextSub, parentOf, lastSeq, watch>>

\* Every endpoint, with few writes: the lifecycle and registration of
\* subscriptions.
Next ==
  \/ CreateSubscription
  \/ GetSubscription
  \/ DeleteSubscription
  \/ RegisterMonitoredItems(Batches, Depths)
  \/ UnregisterMonitoredItems(Batches)
  \/ SubscriptionSync
  \/ WriteValue(MaxLifecycleWrites)

Spec == Init /\ [][Next]_vars

\* Delivery: subscriptions watching single objects, written and drained.
NextQueue ==
  \/ CreateSubscription
  \/ DeleteSubscription
  \/ RegisterMonitoredItems(SingleBatches, {DefaultMaxDepth})
  \/ SubscriptionSync
  \/ WriteValue(MaxWrites)

SpecQueue == Init /\ [][NextQueue]_vars

\* --------------------------------------------------------- object graph
\* The elementIds uuid4 generates, in the order they are handed out.
ObjectPool == <<"o1", "o2", "o3", "o4", "o5">>

\* The ObjectTypes of the type registry.
KnownTypes == {"Equip"}

GraphAnswer(op, elem, parent, status, error) ==
  [op |-> op, elem |-> elem, parent |-> parent, status |-> status,
   error |-> error]

\* Walk the ancestors of the new parent: the object itself among them (or
\* being the new parent) would close a cycle.
WouldCycleSelfOnly(par, e, newParent) == newParent = e

WouldCycle(par, e, newParent) ==
  /\ newParent # Null
  /\ \E k \in 0..Cardinality(DOMAIN par) : AncestorAt(par, newParent, k) = e

\* The outcome of giving object e the parent newParent: checked, then
\* committed.
SetParent(par, e, newParent) ==
  IF e \notin DOMAIN par \/ (newParent # Null /\ newParent \notin DOMAIN par)
  THEN [status |-> 404, error |-> "NotFound", par |-> par]
  ELSE IF WouldCycle(par, e, newParent)
       THEN [status |-> 409, error |-> "CycleDetected", par |-> par]
       ELSE [status |-> 200, error |-> "none",
             par |-> [par EXCEPT ![e] = newParent]]

\* The flags of the objects in S recomputed from the child relation; the
\* others keep their stored value.
Recompute(par, flags, S) ==
  [o \in DOMAIN flags |-> IF o \in S THEN HasChild(par, o) ELSE flags[o]]

\* On a successful change of parent the flag is recomputed for the old
\* parent, the new parent and the object itself.
SetFlags(par, flags, e, newParent, r) ==
  IF r.status = 200
  THEN Recompute(r.par, flags, {par[e], newParent, e})
  ELSE flags

DescendantsOrSelf(par, e) ==
  {d \in DOMAIN par :
     \E k \in 0..Cardinality(DOMAIN par) : AncestorAt(par, d, k) = e}

BlocksDeleteNever(par, e, cascade) == FALSE

\* A delete without the cascade flag is refused while the object has children.
BlocksDelete(par, e, cascade) == HasChild(par, e) /\ ~cascade

\* The outcome of deleteObject(e, cascade): with the flag the subtree goes,
\* children before parent; without it the object alone.
delete_object(par, e, cascade) ==
  IF e \notin DOMAIN par
  THEN [status |-> 404, error |-> "NotFound", par |-> par]
  ELSE IF BlocksDelete(par, e, cascade)
       THEN [status |-> 409, error |-> "HasChildren", par |-> par]
       ELSE LET gone == IF cascade THEN DescendantsOrSelf(par, e) ELSE {e}
            IN [status |-> 200, error |-> "none",
                par |-> [o \in DOMAIN par \ gone |-> par[o]]]

ParentInputs == DOMAIN parentOf \cup {Null, "nosuch"}

\* POST /objects/from-type
CreateObjectFromType ==
  \E type_id \in KnownTypes \cup {"NoType", ""}, display_name \in {"name", ""},
     parent_id \in ParentInputs :
    \/ /\ type_id = "" \/ display_name = ""
       /\ glast' = GraphAnswer("create", Null, parent_id, 422, "value_error")
       /\ UNCHANGED <<subVars, concVars, auxVars, parentOf, nextObj,
                      isComposition>>
    \/ /\ type_id # "" /\ display_name # ""
       /\ type_id \notin KnownTypes
       /\ glast' = GraphAnswer("create", Null, parent_id, 404, "not_found")
       /\ UNCHANGED <<subVars, concVars, auxVars, parentOf, nextObj,
                      isComposition>>
    \/ /\ type_id \in KnownTypes /\ display_name # ""
       /\ nextObj < MaxObjects
       /\ LET element_id == ObjectPool[nextObj + 1] IN
            /\ parentOf' = [o \in DOMAIN parentOf \cup {element_id} |->
                              IF o = element_id THEN parent_id ELSE parentOf[o]]
            /\ isComposition' =
                 [o \in DOMAIN parentOf \cup {element_id} |->
                    IF o = element_id THEN FALSE ELSE isComposition[o]]
            /\ glast' = GraphAnswer("create", element_id, parent_id, 201, "none")
       /\ nextObj' = nextObj + 1
       /\ UNCHANGED <<subVars, concVars, auxVars>>

\* relink(elementId, newParentId)
Relink ==
  \E e \in DOMAIN parentOf \cup {"nosuch"}, newParent \in ParentInputs :
    LET r == SetParent(parentOf, e, newParent) IN
      /\ parentOf' = r.par
      /\ isComposition' = SetFlags(parentOf, isComposition, e, newParent, r)
      /\ glast' = GraphAnswer("relink", e, newParent, r.status, r.error)
      /\ UNCHANGED <<subVars, concVars, auxVars, nextObj>>

\* updateObject(elementId, {parentId}): a change of parentId goes through the
\* same check as relink.
UpdateObject ==
  \E e \in DOMAIN parentOf \cup {"nosuch"}, newParent \in ParentInputs :
    LET r == SetParent(parentOf, e, newParent) IN
      /\ parentOf' = r.par
      /\ isComposition' = SetFlags(parentOf, isComposition, e, newParent, r)
      /\ glast' = GraphAnswer("update", e, newParent, r.status, r.error)
      /\ UNCHANGED <<subVars, concVars, auxVars, nextObj>>

\* deleteObject(elementId, cascade)
DeleteObject ==
  \E e \in DOMAIN parentOf \cup {"nosuch"}, cascade \in BOOLEAN :
    LET r == delete_object(parentOf, e, cascade) IN
      /\ parentOf' = r.par
      /\ isComposition' =
           IF r.status = 200
           THEN Recompute(r.par, [o \in DOMAIN r.par |-> isComposition[o]],
                          {parentOf[e]})
           ELSE isComposition
      /\ glast' = GraphAnswer(IF cascade THEN "cascade" ELSE "delete", e,
                              Null, r.status, r.error)
      /\ UNCHANGED <<subVars, concVars, auxVars, nextObj>>

NextGraph ==
  \/ CreateObjectFromType
  \/ Relink
  \/ UpdateObject
  \/ DeleteObject

\* The store starts empty.
InitEmptyStore ==
  /\ InitSubscriptions
  /\ parentOf = [o \in {} |-> Null]
  /\ InitGraph
  /\ InitConcurrent
  /\ InitAux

SpecGraph == InitEmptyStore /\ [][NextGraph]_vars

\* ------------------------------------------- sync against the fan-out
\* get_and_clear_queue and an enqueue of the fan-out publisher run in two
\* threads over the list objects of one subscription; no lock is taken.

\* queue = self.subscriptions[sub_id]['queue']
SyncRead ==
  /\ syncer.pc = "idle"
  /\ syncer.syncs < MaxSyncs
  /\ syncer' = [syncer EXCEPT !.pc = "read", !.queue = qref]
  /\ UNCHANGED <<subVars, parentOf, graphVars, auxVars, heap, qref, publisher,
                 published, returned, overflowed>>

\* self.subscriptions[sub_id]['queue'] = []
SyncClear ==
  /\ syncer.pc = "read"
  /\ heap' = Append(heap, <<>>)
  /\ qref' = Len(heap) + 1
  /\ syncer' = [syncer EXCEPT !.pc = "cleared"]
  /\ UNCHANGED <<subVars, parentOf, graphVars, auxVars, publisher, published, returned,
                 overflowed>>

\* return queue; the endpoint serialises the list it was handed.
SyncReturn ==
  /\ syncer.pc = "cleared"
  /\ returned' = returned \o heap[syncer.queue]
  /\ syncer' = [pc |-> "idle", queue |-> 0, syncs |-> syncer.syncs + 1]
  /\ UNCHANGED <<subVars, parentOf, graphVars, auxVars, heap, qref, publisher,
                 published, overflowed>>

\* The publisher looks up the subscription's queue ...
PublisherLoad ==
  /\ publisher.pc = "idle"
  /\ published < MaxPublished
  /\ publisher' = [pc |-> "loaded", queue |-> qref]
  /\ UNCHANGED <<subVars, parentOf, graphVars, auxVars, heap, qref, syncer, published,
                 returned, overflowed>>

\* ... and appends the event to that list, dropping the oldest on overflow.
PublisherAppend ==
  /\ publisher.pc = "loaded"
  /\ LET q == heap[publisher.queue]
         ev == [elementId |-> "line1", seq |-> published + 1]
     IN /\ heap' = [heap EXCEPT ![publisher.queue] = Enqueue(q, ev)]
        /\ overflowed' = IF Overflows(q) THEN overflowed \cup {Head(q)}
                         ELSE overflowed
  /\ published' = published + 1
  /\ publisher' = [pc |-> "idle", queue |-> 0]
  /\ UNCHANGED <<subVars, parentOf, graphVars, auxVars, qref, syncer, returned>>

NextConcurrent ==
  \/ SyncRead
  \/ SyncClear
  \/ SyncReturn
  \/ PublisherLoad
  \/ PublisherAppend

SpecConcurrent == Init /\ [][NextConcurrent]_vars

\* ----------------------------------------------------- concurrent relinks
\* Two threads relink objects of one graph. A relink takes the graph lock,
\* walks the ancestors of the new parent, commits, and releases the lock:
\* the check and the commit are two steps, both inside the lock.
RelinkObjects == {"o1", "o2", "o3"}

LockFreeAlways(lock) == TRUE

LockFree(lock) == lock = Null

\* A thread is handed relink(e, newParent).
RelinkBegin(t) ==
  /\ relinker[t].pc = "idle"
  /\ relinker[t].done < MaxRelinks
  /\ \E e \in DOMAIN parentOf, newParent \in DOMAIN parentOf \cup {Null} :
       relinker' = [relinker EXCEPT ![t] =
                      [pc |-> "waiting", elem |-> e, parent |-> newParent,
                       status |-> 0, done |-> relinker[t].done]]
  /\ UNCHANGED <<subVars, parentOf, graphVars, concVars, extVars, graphLock, typeVars,
                 valueVars, histVars>>

RelinkAcquire(t) ==
  /\ relinker[t].pc = "waiting"
  /\ LockFree(graphLock)
  /\ graphLock' = t
  /\ relinker' = [relinker EXCEPT ![t].pc = "locked"]
  /\ UNCHANGED <<subVars, parentOf, graphVars, concVars, extVars, typeVars, valueVars,
                 histVars>>

\* The cycle check, on the graph as it is at this step.
RelinkCheck(t) ==
  /\ relinker[t].pc = "locked"
  /\ relinker' = [relinker EXCEPT ![t] =
                    IF WouldCycle(parentOf, @.elem, @.parent)
                    THEN [@ EXCEPT !.pc = "release", !.status = 409]
                    ELSE [@ EXCEPT !.pc = "checked"]]
  /\ UNCHANGED <<subVars, parentOf, graphVars, concVars, extVars, graphLock, typeVars,
                 valueVars, histVars>>

\* The commit, on the graph as it is at this step.
RelinkCommit(t) ==
  /\ relinker[t].pc = "checked"
  /\ LET e == relinker[t].elem
         newParent == relinker[t].parent
         par == [parentOf EXCEPT ![e] = newParent]
     IN /\ parentOf' = par
        /\ isComposition' =
             Recompute(par, isComposition, {parentOf[e], newParent, e})
  /\ relinker' = [relinker EXCEPT ![t] =
                    [@ EXCEPT !.pc = "release", !.status = 200]]
  /\ UNCHANGED <<subVars, nextObj, glast, concVars, extVars, graphLock, typeVars,
                 valueVars, histVars>>

RelinkRelease(t) ==
  /\ relinker[t].pc = "release"
  /\ graphLock' = IF graphLock = t THEN Null ELSE graphLock
  /\ relinker' = [relinker EXCEPT ![t] =
                    [@ EXCEPT !.pc = "idle", !.done = @ + 1]]
  /\ UNCHANGED <<subVars, parentOf, graphVars, concVars, extVars, typeVars, valueVars,
                 histVars>>

NextRelink ==
  \E t \in RelinkThreads :
    \/ RelinkBegin(t)
    \/ RelinkAcquire(t)
    \/ RelinkCheck(t)
    \/ RelinkCommit(t)
    \/ RelinkRelease(t)

\* The store holds three roots.
InitRelinkStore ==
  /\ InitSubscriptions
  /\ parentOf = [o \in RelinkObjects |-> Null]
  /\ InitGraph
  /\ InitConcurrent
  /\ InitAux

SpecRelink == InitRelinkStore /\ [][NextRelink]_vars

\* ------------------------------------------------------- type registry
TypeIds == {"Equip", "Pump", "Motor"}

\* ObjectTypeRegistry.register_type
register_type(reg, type_def) ==
  [t \in DOMAIN reg \cup {type_def.elementId} |->
     IF t = type_def.elementId THEN type_def ELSE reg[t]]

\* ObjectTypeRegistry.get_type: the definition, or nothing.
get_type(reg, element_id) ==
  IF element_id \in DOMAIN reg THEN <<reg[element_id]>> ELSE <<>>

\* A caller registers an ObjectType, with or without a baseTypeId.
RegisterType ==
  \E element_id \in TypeIds, base \in TypeIds \cup {Null, "NoType"} :
    /\ types' = register_type(types, [elementId |-> element_id,
                                      baseTypeId |-> base])
    /\ tlast' = [op |-> "register", elem |-> element_id, base |-> base,
                 status |-> 200, error |-> "none"]
    /\ UNCHANGED <<subVars, parentOf, graphVars, concVars, extVars, relinkVars,
                   valueVars, histVars>>

\* A caller looks a type up.
GetType ==
  \E element_id \in TypeIds :
    /\ tlast' = [op |-> "get", elem |-> element_id, base |-> Null,
                 status |-> IF get_type(types, element_id) = <<>> THEN 404
                            ELSE 200,
                 error |-> "none"]
    /\ UNCHANGED <<subVars, parentOf, graphVars, concVars, extVars, relinkVars, types,
                   valueVars, histVars>>

NextRegistry ==
  \/ RegisterType
  \/ GetType

SpecRegistry == InitEmptyStore /\ [][NextRegistry]_vars

\* ---------------------------------------------------------- value store
\* The ValuePoints written for an object, in write order.
PointsOf(pts, e) == IF e \in DOMAIN pts THEN pts[e] ELSE <<>>

RECURSIVE SumLen(_, _)
SumLen(pts, S) ==
  IF S = {} THEN 0
  ELSE LET e == CHOOSE x \in S : TRUE
       IN Len(pts[e]) + SumLen(pts, S \ {e})

NewerStrict(p, cand) == p.timestamp > cand.timestamp

\* A point replaces the current one when its timestamp is not older: of two
\* points with the same timestamp the one written last wins.
Newer(p, cand) == p.timestamp >= cand.timestamp

RECURSIVE Latest(_)
\* The current value of a non-empty point sequence, kept up write by write.
Latest(ps) ==
  IF Len(ps) = 1 THEN ps[1]
  ELSE LET cand == Latest(SubSeq(ps, 1, Len(ps) - 1))
           p == ps[Len(ps)]
       IN IF Newer(p, cand) THEN p ELSE cand

\* The current ValuePoint of an object, or nothing when none was written.
CurrentPoint(pts, e) ==
  IF PointsOf(pts, e) = <<>> THEN <<>> ELSE <<Latest(PointsOf(pts, e))>>

Children(par, e) == {c \in DOMAIN par : par[c] = e}

RECURSIVE Collect(_, _, _, _, _, _, _)
\* Depth-bounded walk down the child relation from the target (level 1):
\* one entry per visited object, nested under the object it was reached
\* from; a composition is entered while the depth bound allows
\* (0 = unbounded, 1 = the target alone, N = N levels).
Collect(par, flags, pts, e, under, maxDepth, level) ==
  {[elementId |-> e, under |-> under, point |-> CurrentPoint(pts, e)]}
  \cup
  (IF /\ flags[e]
      /\ (maxDepth = 0 \/ level < maxDepth)
      /\ level <= Cardinality(DOMAIN par)
   THEN UNION {Collect(par, flags, pts, c, e, maxDepth, level + 1) :
                 c \in Children(par, e)}
   ELSE {})

ValueDepths == {0, 1, 2}

\* writeValue(elementId, value, timestamp, quality): appends a ValuePoint.
WriteValuePoint ==
  \E e \in DOMAIN parentOf \cup {"nosuch"}, ts \in 1..MaxTime :
    \/ /\ e \notin DOMAIN parentOf
       /\ vlast' = [op |-> "write", elem |-> e, depth |-> 0, status |-> 404,
                    value |-> {}]
       /\ UNCHANGED <<subVars, parentOf, graphVars, concVars, extVars, relinkVars,
                      typeVars, points, histVars>>
    \/ /\ e \in DOMAIN parentOf
       /\ SumLen(points, DOMAIN points) < MaxValueWrites
       /\ LET p == [value |-> Len(PointsOf(points, e)) + 1, timestamp |-> ts,
                    quality |-> "Good"]
          IN points' = [o \in DOMAIN points \cup {e} |->
                          IF o = e THEN Append(PointsOf(points, e), p)
                          ELSE points[o]]
       /\ vlast' = [op |-> "write", elem |-> e, depth |-> 0, status |-> 200,
                    value |-> {}]
       /\ UNCHANGED <<subVars, parentOf, graphVars, concVars, extVars, relinkVars,
                      typeVars, histVars>>

\* currentValue(elementId, maxDepth)
CurrentValue ==
  \E e \in DOMAIN parentOf \cup {"nosuch"}, max_depth \in ValueDepths :
    /\ vlast' =
         IF e \in DOMAIN parentOf
         THEN [op |-> "current", elem |-> e, depth |-> max_depth,
               status |-> 200,
               value |-> Collect(parentOf, isComposition, points, e, Null,
                                 max_depth, 1)]
         ELSE [op |-> "current", elem |-> e, depth |-> max_depth,
               status |-> 404, value |-> {}]
    /\ UNCHANGED <<subVars, parentOf, graphVars, concVars, extVars, relinkVars,
                   typeVars, points, histVars>>

NextValues ==
  \/ CreateObjectFromType
  \/ WriteValuePoint
  \/ CurrentValue

SpecValues == InitEmptyStore /\ [][NextValues]_vars

\* ------------------------------------------------------------- history
Times == 0..MaxHistTime
Intervals == 1..MaxInterval
Qualities == {"Good", "Bad"}
Methods == {"avg", "sum", "count", "median"}

\* The UTC offsets of the ISO timestamps, in hours behind UTC: "+00:00" and
\* "-02:00".
BehindUtc == {0, 2}

\* A point's 'timestamp' is an ISO string: its local clock reading and its
\* UTC offset.
DataPoints ==
  [timestamp : Times, behind : BehindUtc, value : 1..MaxHistValue,
   quality : Qualities]

\* The points whose timestamps are written in UTC.
UtcPoints == {p \in DataPoints : p.behind = 0}

\* datetime.fromisoformat(point['timestamp']): the instant the string names.
fromisoformat(p) == p.timestamp + p.behind

\* The order of the timestamp strings: the clock reading first, then the
\* offset text ("+00:00" sorts before "-02:00").
KeyBefore(p, q) ==
  \/ p.timestamp < q.timestamp
  \/ p.timestamp = q.timestamp /\ p.behind < q.behind

RECURSIVE InsertByTime(_, _)
\* p put behind every point that is not later than it.
InsertByTime(sorted, p) ==
  IF sorted = <<>> THEN <<p>>
  ELSE IF KeyBefore(p, sorted[Len(sorted)])
       THEN Append(InsertByTime(SubSeq(sorted, 1, Len(sorted) - 1), p),
                   sorted[Len(sorted)])
       ELSE Append(sorted, p)

RECURSIVE SortedByTimestamp(_)
\* sorted(data_points, key=lambda x: x['timestamp']): stable.
SortedByTimestamp(ps) ==
  IF ps = <<>> THEN <<>>
  ELSE InsertByTime(SortedByTimestamp(SubSeq(ps, 1, Len(ps) - 1)),
                    ps[Len(ps)])

\* AggregationEngine._bucket_start_time: (seconds // interval) * interval
bucket_start_time(timestamp, interval) == (timestamp \div interval) * interval

\* _bucket_start_time of a parsed timestamp: the epoch carries the tzinfo of
\* the timestamp, so the seconds counted are those of its clock reading and
\* the bucket start is a time of the same offset; the instant it names.
bucket_start_of(point, interval) ==
  bucket_start_time(point.timestamp, interval) + point.behind

RECURSIVE SumOf(_)
SumOf(values) ==
  IF values = <<>> THEN 0 ELSE Head(values) + SumOf(Tail(values))

MinOf(values) ==
  CHOOSE v \in Range(values) : \A w \in Range(values) : v <= w

MaxOf(values) ==
  CHOOSE v \in Range(values) : \A w \in Range(values) : v >= w

IsGood(p) == p.quality = "Good"

RECURSIVE ValuesOf(_)
ValuesOf(ps) ==
  IF ps = <<>> THEN <<>> ELSE <<Head(ps).value>> \o ValuesOf(Tail(ps))

\* AggregationEngine._compute_aggregate. A value is <<>> for None, <<v>>
\* for a number and <<sum, len>> for the quotient sum / len of avg; an
\* unsupported method raises ValueError once a bucket has a Good value.
compute_aggregate(ps, method, timestamp) ==
  LET values == ValuesOf(SelectSeq(ps, IsGood)) IN
    IF values = <<>>
    THEN [timestamp |-> timestamp, value |-> <<>>, quality |-> "Bad",
          count |-> 0]
    ELSE IF method \notin {"avg", "min", "max", "sum", "count"}
         THEN [timestamp |-> timestamp, value |-> <<>>,
               quality |-> "ValueError", count |-> 0]
         ELSE [timestamp |-> timestamp,
               value |-> CASE method = "avg" -> <<SumOf(values), Len(values)>>
                           [] method = "min" -> <<MinOf(values)>>
                           [] method = "max" -> <<MaxOf(values)>>
                           [] method = "sum" -> <<SumOf(values)>>
                           [] method = "count" -> <<Len(values)>>,
               quality |-> "Good", count |-> Len(values)]

\* bucket_start is None before the first point.
NoBucket == -1

RECURSIVE AggregateFrom(_, _, _, _, _, _)
\* The loop of aggregate_time_series over the sorted points.
AggregateFrom(ps, method, interval, bucket_start, current_bucket, aggregated) ==
  IF ps = <<>>
  THEN IF current_bucket # <<>>
       THEN Append(aggregated,
                   compute_aggregate(current_bucket, method, bucket_start))
       ELSE aggregated
  ELSE LET point == Head(ps)
           point_time == fromisoformat(point)
           start == IF bucket_start = NoBucket
                    THEN bucket_start_of(point, interval)
                    ELSE bucket_start
           bucket_end == start + interval
       IN IF point_time >= bucket_end
          THEN AggregateFrom(Tail(ps), method, interval,
                 bucket_start_of(point, interval), <<point>>,
                 IF current_bucket # <<>>
                 THEN Append(aggregated,
                             compute_aggregate(current_bucket, method, start))
                 ELSE aggregated)
          ELSE AggregateFrom(Tail(ps), method, interval, start,
                 Append(current_bucket, point), aggregated)

\* AggregationEngine.aggregate_time_series
aggregate_time_series(data_points, method, interval_seconds) ==
  IF method = "none" THEN data_points
  ELSE AggregateFrom(SortedByTimestamp(data_points), method,
                     interval_seconds, NoBucket, <<>>, <<>>)

\* timestamp >= start_time AND timestamp <= end_time; a bound that is None
\* (<<>>) does not restrict.
InRange(p, start_time, end_time) ==
  /\ start_time = <<>> \/ fromisoformat(p) >= start_time[1]
  /\ end_time = <<>> \/ fromisoformat(p) <= end_time[1]

SelectRange(series, start_time, end_time) ==
  LET Test(p) == InRange(p, start_time, end_time) IN SelectSeq(series, Test)

RECURSIVE Ascending(_)
\* ORDER BY bucket
Ascending(S) ==
  IF S = {} THEN <<>>
  ELSE LET b == CHOOSE x \in S : \A y \in S : x <= y
       IN <<b>> \o Ascending(S \ {b})

\* get_aggregated_data_sql: one row per bucket that holds a Good point of
\* the range; a row has no quality column.
get_aggregated_data_sql(series, start_time, end_time, aggregation, interval_seconds) ==
  LET Good(p) == IsGood(p) /\ InRange(p, <<start_time>>, <<end_time>>)
      good == SelectSeq(series, Good)
      buckets == Ascending({bucket_start_time(fromisoformat(good[i]),
                                              interval_seconds) :
                              i \in 1..Len(good)})
      Row(b) ==
        LET InBucket(p) ==
              bucket_start_time(fromisoformat(p), interval_seconds) = b
            values == ValuesOf(SelectSeq(good, InBucket))
        IN [timestamp |-> b,
            value |-> CASE aggregation = "min" -> <<MinOf(values)>>
                        [] aggregation = "max" -> <<MaxOf(values)>>
                        [] aggregation = "sum" -> <<SumOf(values)>>
                        [] OTHER -> <<SumOf(values), Len(values)>>,
            quality |-> "none", count |-> Len(values)]
  IN [i \in 1..Len(buckets) |-> Row(buckets[i])]

\* A startTime / endTime query parameter: absent, an ISO time, or a string
\* datetime.fromisoformat rejects.
Absent == [given |-> FALSE, valid |-> TRUE, time |-> 0]
Garbage == [given |-> TRUE, valid |-> FALSE, time |-> 0]
TimeInputs ==
  {Absent, Garbage} \cup {[given |-> TRUE, valid |-> TRUE, time |-> t] :
                            t \in Times}

HistoryAnswer(op, status, error, start, end, interval, method, path, rows) ==
  [op |-> op, status |-> status, error |-> error, start |-> start,
   end |-> end, interval |-> interval, method |-> method, path |-> path,
   rows |-> rows]

Raises(rows) == \E i \in 1..Len(rows) : rows[i].quality = "ValueError"

\* DataRepository.get_time_series_data, by the application-level engine
\* ("app") or by the in-database aggregation ("sql").
get_time_series_data(series, start_time, end_time, aggregation, interval, path) ==
  IF aggregation = "none" \/ path = "app"
  THEN aggregate_time_series(
         SelectRange(series, <<start_time>>, <<end_time>>), aggregation,
         interval)
  ELSE get_aggregated_data_sql(series, start_time, end_time, aggregation,
                               interval)

\* GET /api/v1/entities/<entity_id>/data. The endpoint only reads, so one
\* request per behaviour shows all it does.
GetEntityData ==
  \E entity_id \in {"line1", "nosuch"}, start_time_str \in TimeInputs,
     end_time_str \in TimeInputs, aggregation \in Methods \cup {"none"},
     interval \in Intervals, now \in Times, path \in {"app", "sql"} :
    /\ hlast.op = "none"
    /\ LET end_time == IF end_time_str.given THEN end_time_str.time ELSE now
           start_time == IF start_time_str.given THEN start_time_str.time
                         ELSE now - DefaultWindow
           series == IF entity_id = "line1" THEN hpoints ELSE <<>>
           data == get_time_series_data(series, start_time, end_time,
                                        aggregation, interval, path)
           Answer400 ==
             HistoryAnswer("entity_data", 400, "Invalid parameter", <<>>,
                           <<>>, interval, aggregation, path, <<>>)
       IN hlast' =
            IF ~start_time_str.valid \/ ~end_time_str.valid
            THEN Answer400
            ELSE IF entity_id \notin DOMAIN parentOf
                 THEN HistoryAnswer("entity_data", 404, "Entity not found",
                        <<start_time>>, <<end_time>>, interval, aggregation,
                        path, <<>>)
                 ELSE IF Raises(data)
                      THEN [Answer400 EXCEPT !.start = <<start_time>>,
                                             !.end = <<end_time>>]
                      ELSE HistoryAnswer("entity_data", 200, "none",
                             <<start_time>>, <<end_time>>, interval,
                             aggregation, path, data)
    /\ UNCHANGED <<subVars, parentOf, graphVars, concVars, extVars, relinkVars,
                   typeVars, valueVars, hpoints>>

\* POST /objects/history: the bounds go to the repository as they came,
\* None when absent.
GetObjectHistory ==
  \E element_ids \in {<<>>, <<"line1">>}, start_time_str \in TimeInputs,
     end_time_str \in TimeInputs :
    /\ hlast.op = "none"
    /\ LET start_time == IF start_time_str.given THEN <<start_time_str.time>>
                         ELSE <<>>
           end_time == IF end_time_str.given THEN <<end_time_str.time>>
                       ELSE <<>>
       IN hlast' =
            IF element_ids = <<>>
            THEN HistoryAnswer("object_history", 422, "value_error", <<>>,
                               <<>>, 0, "none", "none", <<>>)
            ELSE IF ~start_time_str.valid \/ ~end_time_str.valid
                 THEN HistoryAnswer("object_history", 400, "value_error",
                                    <<>>, <<>>, 0, "none", "none", <<>>)
                 ELSE HistoryAnswer("object_history", 200, "none",
                        start_time, end_time, 0, "none", "none",
                        SelectRange(hpoints, start_time, end_time))
    /\ UNCHANGED <<subVars, parentOf, graphVars, concVars, extVars, relinkVars,
                   typeVars, valueVars, hpoints>>

NextHistory ==
  \/ GetEntityData
  \/ GetObjectHistory

\* The store holds line1 and pump1; line1 has a time series of up to
\* MaxHistPoints points, in any order of arrival.
InitHistoryStore ==
  /\ InitSubscriptions
  /\ parentOf = [o \in ObjectIds |-> IF o = "pump1" THEN "line1" ELSE Null]
  /\ InitGraph
  /\ InitConcurrent
  /\ InitRelinkers
  /\ InitRegistry
  /\ InitValues
  /\ InitExt
  /\ hlast = NoHistoryRequest
  /\ hpoints \in UNION {[1..n -> UtcPoints] : n \in 0..MaxHistPoints}

SpecHistory == InitHistoryStore /\ [][NextHistory]_vars

\* ------------------------------------------------------ related objects
RelatedIds == {"o1", "o2", "o3"}

\* The one relationship type the edges belong to.
RelationshipTypes == {"HasComponent"}

\* The place of an elementId in lexical order.
Rank(x) == CHOOSE i \in 1..Len(ObjectPool) : ObjectPool[i] = x

RECURSIVE ByRank(_)
\* The elementIds of a set in lexical order.
ByRank(S) ==
  IF S = {} THEN <<>>
  ELSE LET x == CHOOSE y \in S : \A z \in S : Rank(y) <= Rank(z)
       IN <<x>> \o ByRank(S \ {x})

\* ObjectRepository.get_related_objects(element_id, relationship_type): the
\* objects the element is directly related to; the method takes no depth.
get_related_objects(rel, element_id, relationship_type) ==
  IF element_id \in DOMAIN rel
     /\ relationship_type \in RelationshipTypes \cup {Null}
  THEN ByRank(rel[element_id])
  ELSE <<>>

RECURSIVE ExtendAll(_, _, _)
\* for eid in element_ids: results.extend(repo.get_related_objects(...))
ExtendAll(rel, element_ids, relationship_type) ==
  IF element_ids = <<>> THEN <<>>
  ELSE get_related_objects(rel, Head(element_ids), relationship_type)
       \o ExtendAll(rel, Tail(element_ids), relationship_type)

RelatedBatches ==
  {<<>>} \cup {<<a>> : a \in RelatedIds} \cup (RelatedIds \X RelatedIds)

\* POST /objects/related. The body may carry a depth; the endpoint reads
\* elementId(s) and relationshiptype only. It only reads the store, so one
\* request per behaviour shows all it does.
GetRelatedObjects ==
  \E element_ids \in RelatedBatches, depth \in ValueDepths,
     relationship_type \in RelationshipTypes \cup {Null, "Other"} :
    /\ rlast.op = "none"
    /\ rlast' = [op |-> "related", ids |-> element_ids,
                 rel |-> relationship_type, depth |-> depth, status |-> 200,
                 rows |-> ExtendAll(edges, element_ids, relationship_type)]
    /\ UNCHANGED <<subVars, parentOf, graphVars, concVars, relinkVars,
                   typeVars, valueVars, histVars, edges, slast, moreVars>>

NextRelated ==
  \/ GetRelatedObjects

\* The store holds three roots, each related to any of the others: cycles,
\* and an edge with its reverse, included.
InitRelatedStore ==
  /\ InitSubscriptions
  /\ parentOf = [o \in RelatedIds |-> Null]
  /\ InitGraph
  /\ InitConcurrent
  /\ InitRelinkers
  /\ InitRegistry
  /\ InitValues
  /\ InitHistory
  /\ edges \in {f \in [RelatedIds -> SUBSET RelatedIds] :
                   \A o \in RelatedIds : o \notin f[o]}
  /\ rlast = NoRelatedRequest
  /\ slast = NoSchemaRequest
  /\ InitMore

SpecRelated == InitRelatedStore /\ [][NextRelated]_vars

\* ------------------------------------------------------ schema merging
PropertyNames == <<"speed", "status">>

\* The property maps a type definition may carry: none, status as a string
\* or as a number, or speed.
PropertyMaps ==
  {<<>>, [status |-> "string"], [status |-> "number"], [speed |-> "number"]}

RECURSIVE AttributeList(_, _)
\* The same definitions as an 'attributes' list, one entry per name.
AttributeList(props, names) ==
  IF names = <<>> THEN <<>>
  ELSE (IF Head(names) \in DOMAIN props
        THEN <<[name |-> Head(names), type |-> props[Head(names)]]>>
        ELSE <<>>) \o AttributeList(props, Tail(names))

\* dict.update: the entries of b are written over those of a.
Update(a, b) ==
  [k \in DOMAIN a \cup DOMAIN b |-> IF k \in DOMAIN b THEN b[k] ELSE a[k]]

RECURSIVE get_merged_schema(_, _, _)
\* ObjectTypeRegistry.get_merged_schema; level counts the nested calls, and
\* a chain longer than the registry (a cyclic one) ends in RecursionError.
get_merged_schema(reg, element_id, level) ==
  IF level > Cardinality(DOMAIN reg) + 1
  THEN [raised |-> TRUE, properties |-> <<>>]
  ELSE IF get_type(reg, element_id) = <<>>
       THEN [raised |-> FALSE, properties |-> <<>>]
       ELSE LET type_def == reg[element_id]
                base_schema ==
                  IF type_def.baseTypeId # Null
                  THEN get_merged_schema(reg, type_def.baseTypeId, level + 1)
                  ELSE [raised |-> FALSE, properties |-> <<>>]
            IN [raised |-> base_schema.raised,
                properties |-> Update(Update(<<>>, base_schema.properties),
                                      type_def.properties)]

RECURSIVE get_effective_attributes(_, _, _)
\* TypeRegistry.get_effective_attributes
get_effective_attributes(reg, type_id, level) ==
  IF level > Cardinality(DOMAIN reg) + 1
  THEN [raised |-> TRUE, attributes |-> <<>>]
  ELSE IF get_type(reg, type_id) = <<>>
       THEN [raised |-> FALSE, attributes |-> <<>>]
       ELSE LET type_def == reg[type_id]
                base ==
                  IF type_def.baseTypeId # Null
                  THEN get_effective_attributes(reg, type_def.baseTypeId,
                                                level + 1)
                  ELSE [raised |-> FALSE, attributes |-> <<>>]
            IN [raised |-> base.raised,
                attributes |-> base.attributes \o type_def.attributes]

\* A caller registers a type with its properties (its attributes).
RegisterTypeDef ==
  \E element_id \in TypeIds, base \in TypeIds \cup {Null},
     props \in PropertyMaps :
    /\ types' = register_type(types,
                  [elementId |-> element_id, baseTypeId |-> base,
                   properties |-> props,
                   attributes |-> AttributeList(props, PropertyNames)])
    /\ slast' = [NoSchemaRequest EXCEPT !.op = "register",
                                        !.elem = element_id]
    /\ UNCHANGED <<subVars, parentOf, graphVars, concVars, relinkVars,
                   tlast, valueVars, histVars, relatedVars, moreVars>>

GetMergedSchema ==
  \E element_id \in TypeIds :
    LET r == get_merged_schema(types, element_id, 1) IN
      /\ slast' = [op |-> "merged_schema", elem |-> element_id,
                   raised |-> r.raised,
                   properties |-> IF r.raised THEN <<>> ELSE r.properties,
                   attributes |-> <<>>]
      /\ UNCHANGED <<subVars, parentOf, graphVars, concVars, relinkVars,
                     typeVars, valueVars, histVars, relatedVars, moreVars>>

GetEffectiveAttributes ==
  \E type_id \in TypeIds :
    LET r == get_effective_attributes(types, type_id, 1) IN
      /\ slast' = [op |-> "effective_attributes", elem |-> type_id,
                   raised |-> r.raised, properties |-> <<>>,
                   attributes |-> IF r.raised THEN <<>> ELSE r.attributes]
      /\ UNCHANGED <<subVars, parentOf, graphVars, concVars, relinkVars,
                     typeVars, valueVars, histVars, relatedVars, moreVars>>

NextSchema ==
  \/ RegisterTypeDef
  \/ GetMergedSchema
  \/ GetEffectiveAttributes

SpecSchema == InitEmptyStore /\ [][NextSchema]_vars

\* ------------------------------------------------ stream channel lifecycle
\* Expiry waits for the idle timeout only.
MayExpireIdleOnly(s) ==
  /\ sstate[s] = "Active"
  /\ idle[s] >= IdleTimeout

\* "no sync or stream activity for an implementation-defined timeout";
\* "expiry must not silently happen while a stream channel is actively
\* connected".
MayExpire(s) ==
  /\ sstate[s] = "Active"
  /\ idle[s] >= IdleTimeout
  /\ ~connected[s]

\* A disconnect that also drops what the queue holds.
ReleaseChannelAndQueue(q) == <<>>

\* A closing connection releases its channel; the queue is left as it is.
ReleaseChannel(q) == q

\* create(): Active immediately.
StreamCreate ==
  \E s \in SubIds :
    /\ sstate[s] = "None"
    /\ \A r \in SubIds : r < s => sstate[r] # "None"
    /\ sstate' = [sstate EXCEPT ![s] = "Active"]
    /\ stlast' = StreamAnswer("create", s, <<>>)
    /\ UNCHANGED <<connected, idle, squeue, emitted>>
    /\ UNCHANGED <<coreVars, fanoutVars, entityVars, aggVars, limiterVars,
                   backoffVars>>

\* GET /subscriptions/{id}/stream: the channel opens and what the queue holds
\* is pushed from its head.
StreamConnect ==
  \E s \in SubIds :
    /\ sstate[s] = "Active"
    /\ ~connected[s]
    /\ connected' = [connected EXCEPT ![s] = TRUE]
    /\ idle' = [idle EXCEPT ![s] = 0]
    /\ squeue' = [squeue EXCEPT ![s] = <<>>]
    /\ stlast' = StreamAnswer("connect", s, squeue[s])
    /\ UNCHANGED <<sstate, emitted>>
    /\ UNCHANGED <<coreVars, fanoutVars, entityVars, aggVars, limiterVars,
                   backoffVars>>

\* The client closes the connection.
StreamDisconnect ==
  \E s \in SubIds :
    /\ sstate[s] = "Active"
    /\ connected[s]
    /\ connected' = [connected EXCEPT ![s] = FALSE]
    /\ idle' = [idle EXCEPT ![s] = 0]
    /\ squeue' = [squeue EXCEPT ![s] = ReleaseChannel(squeue[s])]
    /\ stlast' = StreamAnswer("disconnect", s, <<>>)
    /\ UNCHANGED <<sstate, emitted>>
    /\ UNCHANGED <<coreVars, fanoutVars, entityVars, aggVars, limiterVars,
                   backoffVars>>

\* Whether an event for s is pushed at once: its channel is open, nothing is
\* queued before it, and the network writer is not blocked.
PushedAtOnce(s, busy) ==
  /\ connected[s]
  /\ squeue[s] = <<>>
  /\ s \notin busy

\* A change event that matches the subscriptions 'targets': pushed to the open
\* channels, queued (drop-oldest) for the Active subscriptions without one
\* and for those whose writer is blocked ('busy').
StreamPublish ==
  \E targets \in SUBSET SubIds, busy \in SUBSET SubIds :
    /\ emitted < MaxStreamEvents
    /\ busy \subseteq {s \in targets : connected[s] /\ squeue[s] = <<>>}
    /\ emitted' = emitted + 1
    /\ squeue' = [s \in SubIds |->
                    IF s \in targets /\ sstate[s] = "Active"
                         /\ ~PushedAtOnce(s, busy)
                    THEN Enqueue(squeue[s], emitted + 1) ELSE squeue[s]]
    /\ idle' = [s \in SubIds |->
                  IF s \in targets /\ sstate[s] = "Active"
                       /\ PushedAtOnce(s, busy)
                  THEN 0 ELSE idle[s]]
    /\ stlast' = [StreamAnswer("publish", 0, <<emitted + 1>>)
                    EXCEPT !.targets = targets]
    /\ UNCHANGED <<sstate, connected>>
    /\ UNCHANGED <<coreVars, fanoutVars, entityVars, aggVars, limiterVars,
                   backoffVars>>

\* The writer of an open channel pushes the event at the head of the queue.
StreamDrain ==
  \E s \in SubIds :
    /\ sstate[s] = "Active"
    /\ connected[s]
    /\ squeue[s] # <<>>
    /\ squeue' = [squeue EXCEPT ![s] = Tail(squeue[s])]
    /\ idle' = [idle EXCEPT ![s] = 0]
    /\ stlast' = StreamAnswer("push", s, <<Head(squeue[s])>>)
    /\ UNCHANGED <<sstate, connected, emitted>>
    /\ UNCHANGED <<coreVars, fanoutVars, entityVars, aggVars, limiterVars,
                   backoffVars>>

\* POST /subscriptions/{id}/sync on an Active subscription: the queue is
\* returned and cleared.
StreamSync ==
  \E s \in SubIds :
    /\ sstate[s] = "Active"
    /\ squeue' = [squeue EXCEPT ![s] = <<>>]
    /\ idle' = [idle EXCEPT ![s] = 0]
    /\ stlast' = StreamAnswer("sync", s, squeue[s])
    /\ UNCHANGED <<sstate, connected, emitted>>
    /\ UNCHANGED <<coreVars, fanoutVars, entityVars, aggVars, limiterVars,
                   backoffVars>>

\* Time passes for the Active subscriptions.
StreamTick ==
  /\ \E s \in SubIds : sstate[s] = "Active" /\ idle[s] < IdleTimeout
  /\ idle' = [s \in SubIds |->
                IF sstate[s] = "Active" /\ idle[s] < IdleTimeout
                THEN idle[s] + 1 ELSE idle[s]]
  /\ stlast' = StreamAnswer("tick", 0, <<>>)
  /\ UNCHANGED <<sstate, connected, squeue, emitted>>
  /\ UNCHANGED <<coreVars, fanoutVars, entityVars, aggVars, limiterVars,
                 backoffVars>>

\* Idle/expiry: the subscription becomes Expired and its queue is collected.
StreamExpire ==
  \E s \in SubIds :
    /\ MayExpire(s)
    /\ sstate' = [sstate EXCEPT ![s] = "Expired"]
    /\ connected' = [connected EXCEPT ![s] = FALSE]
    /\ squeue' = [squeue EXCEPT ![s] = <<>>]
    /\ stlast' = StreamAnswer("expire", s, <<>>)
    /\ UNCHANGED <<idle, emitted>>
    /\ UNCHANGED <<coreVars, fanoutVars, entityVars, aggVars, limiterVars,
                   backoffVars>>

\* delete(subId): Closed; the queue and any open channel are released.
StreamDelete ==
  \E s \in SubIds :
    /\ sstate[s] = "Active"
    /\ sstate' = [sstate EXCEPT ![s] = "Closed"]
    /\ connected' = [connected EXCEPT ![s] = FALSE]
    /\ squeue' = [squeue EXCEPT ![s] = <<>>]
    /\ stlast' = StreamAnswer("delete", s, <<>>)
    /\ UNCHANGED <<idle, emitted>>
    /\ UNCHANGED <<coreVars, fanoutVars, entityVars, aggVars, limiterVars,
                   backoffVars>>

NextStream ==
  \/ StreamCreate
  \/ StreamConnect
  \/ StreamDisconnect
  \/ StreamPublish
  \/ StreamDrain
  \/ StreamSync
  \/ StreamTick
  \/ StreamExpire
  \/ StreamDelete

SpecStream == Init /\ [][NextStream]_vars

\* ------------------------------------------------------- concurrent fan-out
\* The Change Notifier hands each event to the delivery path of every
\* matching subscription; the paths run independently of each other.  Every
\* subscription here is Active with an open stream channel.

\* A single delivery path: nothing is dispatched while some consumer with a
\* full queue has stopped reading.
MayDispatchInTurn(s) ==
  /\ inbox[s] # <<>>
  /\ \A r \in SubIds : ~(stalled[r] /\ Len(fqueue[r]) >= QueueCapacity)

\* "each subscription's delivery path runs independently"
MayDispatch(s) ==
  inbox[s] # <<>>

\* publish(event): the event is handed to the matching subscriptions.
FanoutPublish ==
  \E targets \in (SUBSET SubIds) \ {{}} :
    /\ fcount < MaxFanoutEvents
    /\ fcount' = fcount + 1
    /\ inbox' = [s \in SubIds |->
                   IF s \in targets THEN Append(inbox[s], fcount + 1)
                   ELSE inbox[s]]
    /\ UNCHANGED <<fqueue, fpushed, stalled, accepted>>
    /\ UNCHANGED <<coreVars, streamVars, entityVars, aggVars, limiterVars,
                   backoffVars>>

\* The delivery path of s takes its next event: pushed to a consumer that
\* reads and has nothing queued, enqueued (drop-oldest) otherwise.
FanoutDispatch(s) ==
  /\ MayDispatch(s)
  /\ inbox' = [inbox EXCEPT ![s] = Tail(inbox[s])]
  /\ accepted' = [accepted EXCEPT ![s] = accepted[s] \cup {Head(inbox[s])}]
  /\ IF ~stalled[s] /\ fqueue[s] = <<>>
     THEN /\ fpushed' = [fpushed EXCEPT ![s] = Append(fpushed[s], Head(inbox[s]))]
          /\ UNCHANGED fqueue
     ELSE /\ fqueue' = [fqueue EXCEPT ![s] = Enqueue(fqueue[s], Head(inbox[s]))]
          /\ UNCHANGED fpushed
  /\ UNCHANGED <<stalled, fcount>>
  /\ UNCHANGED <<coreVars, streamVars, entityVars, aggVars, limiterVars,
                 backoffVars>>

\* The writer of s pushes the head of its queue to a consumer that reads.
FanoutDrain(s) ==
  /\ ~stalled[s]
  /\ fqueue[s] # <<>>
  /\ fpushed' = [fpushed EXCEPT ![s] = Append(fpushed[s], Head(fqueue[s]))]
  /\ fqueue' = [fqueue EXCEPT ![s] = Tail(fqueue[s])]
  /\ UNCHANGED <<inbox, stalled, accepted, fcount>>
  /\ UNCHANGED <<coreVars, streamVars, entityVars, aggVars, limiterVars,
                 backoffVars>>

\* The consumer of s stops reading its stream.
ConsumerStall ==
  \E s \in SubIds :
    /\ ~stalled[s]
    /\ stalled' = [stalled EXCEPT ![s] = TRUE]
    /\ UNCHANGED <<inbox, fqueue, fpushed, accepted, fcount>>
    /\ UNCHANGED <<coreVars, streamVars, entityVars, aggVars, limiterVars,
                   backoffVars>>

\* The consumer of s reads again.
ConsumerResume ==
  \E s \in SubIds :
    /\ stalled[s]
    /\ stalled' = [stalled EXCEPT ![s] = FALSE]
    /\ UNCHANGED <<inbox, fqueue, fpushed, accepted, fcount>>
    /\ UNCHANGED <<coreVars, streamVars, entityVars, aggVars, limiterVars,
                   backoffVars>>

NextFanout ==
  \/ FanoutPublish
  \/ \E s \in SubIds : FanoutDispatch(s)
  \/ \E s \in SubIds : FanoutDrain(s)
  \/ ConsumerStall
  \/ ConsumerResume

SpecFanout == Init /\ [][NextFanout]_vars

\* The delivery paths and writers of the server are scheduled fairly; nothing
\* is assumed of the consumers.
SpecFanoutFair ==
  /\ SpecFanout
  /\ \A s \in SubIds : WF_vars(FanoutDispatch(s))
  /\ \A s \in SubIds : WF_vars(FanoutDrain(s))

\* ---------------------------------------------------------- entity lifecycle
\* EntityRepository over a dictionary, and the /api/v1/entities endpoints the
\* integration test drives.

\* EntityRepository.get_entity: the stored entity, None when there is none.
get_entity(ents, entity_id) ==
  IF entity_id \in DOMAIN ents THEN <<ents[entity_id]>> ELSE <<>>

\* EntityRepository.create_entity
create_entity(ents, entity_id, name) ==
  [e \in DOMAIN ents \cup {entity_id} |->
     IF e = entity_id THEN [id |-> entity_id, displayName |-> name]
     ELSE ents[e]]

\* EntityRepository.update_entity
update_entity(ents, entity_id, name) ==
  [ents EXCEPT ![entity_id].displayName = name]

\* A delete that answers True and removes nothing.
delete_entityKeeps(ents, entity_id) ==
  ents

\* EntityRepository.delete_entity
delete_entity(ents, entity_id) ==
  [e \in DOMAIN ents \ {entity_id} |-> ents[e]]

\* POST /api/v1/entities
CreateEntity ==
  \E name \in DisplayNames :
    /\ nextEntity < MaxEntities
    /\ LET entity_id == EntityPool[nextEntity + 1]
       IN /\ entities' = create_entity(entities, entity_id, name)
          /\ shadow' = [shadow EXCEPT ![entity_id] = <<name>>]
          /\ elast' = EntityAnswer("create", entity_id, 201, name)
    /\ nextEntity' = nextEntity + 1
    /\ UNCHANGED <<coreVars, streamVars, fanoutVars, aggVars, limiterVars,
                   backoffVars>>

\* GET /api/v1/entities/<entity_id>
GetEntity ==
  \E entity_id \in EntityIds :
    /\ LET entity == get_entity(entities, entity_id)
       IN elast' = IF entity = <<>>
                   THEN EntityAnswer("get", entity_id, 404, Null)
                   ELSE EntityAnswer("get", entity_id, 200,
                                     entity[1].displayName)
    /\ UNCHANGED <<entities, nextEntity, shadow>>
    /\ UNCHANGED <<coreVars, streamVars, fanoutVars, aggVars, limiterVars,
                   backoffVars>>

\* PUT /api/v1/entities/<entity_id>
UpdateEntity ==
  \E entity_id \in EntityIds, name \in DisplayNames :
    /\ IF entity_id \in DOMAIN entities
       THEN /\ entities' = update_entity(entities, entity_id, name)
            /\ shadow' = [shadow EXCEPT ![entity_id] = <<name>>]
            /\ elast' = EntityAnswer("update", entity_id, 200, name)
       ELSE /\ elast' = EntityAnswer("update", entity_id, 404, Null)
            /\ UNCHANGED <<entities, shadow>>
    /\ UNCHANGED nextEntity
    /\ UNCHANGED <<coreVars, streamVars, fanoutVars, aggVars, limiterVars,
                   backoffVars>>

\* DELETE /api/v1/entities/<entity_id>
DeleteEntity ==
  \E entity_id \in EntityIds :
    /\ IF entity_id \in DOMAIN entities
       THEN /\ entities' = delete_entity(entities, entity_id)
            /\ shadow' = [shadow EXCEPT ![entity_id] = <<>>]
            /\ elast' = EntityAnswer("delete", entity_id, 204, Null)
       ELSE /\ elast' = EntityAnswer("delete", entity_id, 404, Null)
            /\ UNCHANGED <<entities, shadow>>
    /\ UNCHANGED nextEntity
    /\ UNCHANGED <<coreVars, streamVars, fanoutVars, aggVars, limiterVars,
                   backoffVars>>

NextEntities ==
  \/ CreateEntity
  \/ GetEntity
  \/ UpdateEntity
  \/ DeleteEntity

SpecEntities == Init /\ [][NextEntities]_vars

\* ------------------------------------------------------------- aggregation
\* The methods _compute_aggregate supports.
AggMethods == {"avg", "min", "max", "sum", "count"}

\* A time after every instant a point can name.
EndOfTime == MaxHistTime + 2

\* AggregationEngine.aggregate_time_series on the points. The function only
\* computes, so one call per behaviour shows all it does.
Aggregate ==
  \E method \in AggMethods, interval_seconds \in Intervals :
    /\ alast.op = "none"
    /\ alast' = [op |-> "aggregate", method |-> method,
                 interval |-> interval_seconds,
                 rows |-> aggregate_time_series(apoints, method,
                                                interval_seconds)]
    /\ UNCHANGED apoints
    /\ UNCHANGED <<coreVars, streamVars, fanoutVars, entityVars, limiterVars,
                   backoffVars>>

\* get_aggregated_data_sql over a table that holds the points, for a time
\* range that holds them all.
AggregateSql ==
  \E aggregation \in AggMethods, interval_seconds \in Intervals :
    /\ alast.op = "none"
    /\ alast' = [op |-> "sql", method |-> aggregation,
                 interval |-> interval_seconds,
                 rows |-> get_aggregated_data_sql(apoints, 0, EndOfTime,
                            aggregation, interval_seconds)]
    /\ UNCHANGED apoints
    /\ UNCHANGED <<coreVars, streamVars, fanoutVars, entityVars, limiterVars,
                   backoffVars>>

NextAggregation ==
  \/ Aggregate
  \/ AggregateSql

\* Up to MaxAggPoints data points in any order, with timestamps of either
\* offset.
InitAggregationStore ==
  /\ InitSubscriptions
  /\ parentOf = [o \in ObjectIds |-> IF o = "pump1" THEN "line1" ELSE Null]
  /\ InitGraph
  /\ InitConcurrent
  /\ InitRelinkers
  /\ InitRegistry
  /\ InitValues
  /\ InitHistory
  /\ InitRelated
  /\ slast = NoSchemaRequest
  /\ InitStream
  /\ InitFanout
  /\ InitEntities
  /\ InitLimiter
  /\ InitBackoff
  /\ alast = NoAggregation
  /\ apoints \in UNION {[1..n -> DataPoints] : n \in 0..MaxAggPoints}

SpecAggregation == InitAggregationStore /\ [][NextAggregation]_vars

\* ------------------------------------------------------------ rate limiter
\* RateLimiter.throttle. The code up to the await runs without interruption,
\* and so does the push after it; a timer fires at its time or later.

\* this.requests.filter(time => now - time < this.windowMs)
FilterWindow(reqs, now) ==
  LET Recent(time) == now - time < windowMs IN SelectSeq(reqs, Recent)

\* throttle() up to its await, or to its end when it does not wait.
ThrottleCall ==
  \E c \in CallIds :
    /\ calls[c].pc = "idle"
    /\ \A d \in CallIds : d < c => calls[d].pc # "idle"
    /\ LET now == clock
           recent == FilterWindow(requests, now)
       IN IF Len(recent) >= maxRequests
          THEN LET oldestRequest == recent[1]
                   waitTime == windowMs - (now - oldestRequest)
               IN /\ requests' = recent
                  /\ calls' = [calls EXCEPT ![c] =
                                 [pc |-> "waiting", now |-> now,
                                  wakeAt |-> now + waitTime]]
                  /\ UNCHANGED resolved
          ELSE /\ requests' = Append(recent, now)
               /\ calls' = [calls EXCEPT ![c] =
                              [pc |-> "done", now |-> now, wakeAt |-> now]]
               /\ resolved' = Append(resolved, clock)
    /\ UNCHANGED clock
    /\ UNCHANGED <<coreVars, streamVars, fanoutVars, entityVars, aggVars,
                   backoffVars>>

\* The timer of a waiting call has fired: this.requests.push(now), with the
\* 'now' read before the wait.
ThrottleResume ==
  \E c \in CallIds :
    /\ calls[c].pc = "waiting"
    /\ clock >= calls[c].wakeAt
    /\ requests' = Append(requests, calls[c].now)
    /\ calls' = [calls EXCEPT ![c].pc = "done"]
    /\ resolved' = Append(resolved, clock)
    /\ UNCHANGED clock
    /\ UNCHANGED <<coreVars, streamVars, fanoutVars, entityVars, aggVars,
                   backoffVars>>

\* A millisecond passes.
ClockTick ==
  /\ clock < MaxClock
  /\ clock' = clock + 1
  /\ UNCHANGED <<requests, calls, resolved>>
  /\ UNCHANGED <<coreVars, streamVars, fanoutVars, entityVars, aggVars,
                 backoffVars>>

NextLimiter ==
  \/ ThrottleCall
  \/ ThrottleResume
  \/ ClockTick

SpecLimiter == Init /\ [][NextLimiter]_vars

\* ------------------------------------------------------- fetchWithBackoff
\* The statuses a response may carry.
Statuses == {200, 429, 500}

\* response.headers.get('Retry-After'): no header, a number of seconds, or
\* an HTTP date.
RetryAfterHeaders == {"absent", "0", "5", "date"}

RECURSIVE Pow2(_)
\* Math.pow(2, i)
Pow2(i) == IF i = 0 THEN 1 ELSE 2 * Pow2(i - 1)

\* retryAfter * 1000 in seconds: the header when there is one, 2^i without;
\* a date multiplies to NaN, which setTimeout takes as 0.
RetryDelay(header, i) ==
  CASE header = "absent" -> Pow2(i)
    [] header = "0" -> 0
    [] header = "5" -> 5
    [] header = "date" -> 0

\* A loop that makes one attempt more.
MayAttemptInclusive(i, max) == i <= max

\* i < maxRetries
MayAttempt(i, max) == i < max

\* fetchWithBackoff(url, options, maxRetries) is called.
FetchWithBackoff ==
  \E max \in 0..MaxRetries :
    /\ blast.pc = "idle"
    /\ blast' = [blast EXCEPT !.pc = "loop", !.maxRetries = max]
    /\ UNCHANGED <<coreVars, streamVars, fanoutVars, entityVars, aggVars,
                   limiterVars>>

\* One pass of the loop body up to its second await: the fetch settles with
\* a response, or rejects.
BackoffFetch ==
  /\ blast.pc = "loop"
  /\ MayAttempt(blast.i, blast.maxRetries)
  /\ \/ \E status \in Statuses, header \in RetryAfterHeaders :
          blast' = IF status # 429
                   THEN [blast EXCEPT !.pc = "returned", !.status = status,
                           !.statuses = Append(blast.statuses, status)]
                   ELSE [blast EXCEPT !.pc = "wait",
                           !.statuses = Append(blast.statuses, status),
                           !.delays = Append(blast.delays,
                                             RetryDelay(header, blast.i))]
     \/ blast' = [blast EXCEPT !.pc = "thrown", !.error = "fetch failed",
                     !.statuses = Append(blast.statuses, 0)]
  /\ UNCHANGED <<coreVars, streamVars, fanoutVars, entityVars, aggVars,
                 limiterVars>>

\* The timer of the wait fires: i++.
BackoffTimer ==
  /\ blast.pc = "wait"
  /\ blast' = [blast EXCEPT !.pc = "loop", !.i = blast.i + 1]
  /\ UNCHANGED <<coreVars, streamVars, fanoutVars, entityVars, aggVars,
                 limiterVars>>

\* The loop ends: throw new Error('Max retries exceeded').
BackoffExhausted ==
  /\ blast.pc = "loop"
  /\ ~MayAttempt(blast.i, blast.maxRetries)
  /\ blast' = [blast EXCEPT !.pc = "thrown",
                            !.error = "Max retries exceeded"]
  /\ UNCHANGED <<coreVars, streamVars, fanoutVars, entityVars, aggVars,
                 limiterVars>>

NextBackoff ==
  \/ FetchWithBackoff
  \/ BackoffFetch
  \/ BackoffTimer
  \/ BackoffExhausted

SpecBackoff == Init /\ [][NextBackoff]_vars

\* Every fetch settles and every timer fires.
SpecBackoffFair ==
  /\ SpecBackoff
  /\ WF_vars(BackoffFetch)
  /\ WF_vars(BackoffTimer)
  /\ WF_vars(BackoffExhausted)

\* ------------------------------------------------------------- claims
IsRequest(a, op, s) == a.req.op = op /\ a.req.sub = s

Updates(a) == a.resp.updates

\* C1: a sync of a subscription returns exactly the events fanned out to it
\* since its previous sync (when they did not overflow the queue), in FIFO
\* order, and leaves the queue empty; so a sync that follows a sync with no
\* event in between returns the empty list.
C1_SyncDrainsFifo ==
  [][\A s \in DOMAIN subscriptions :
       IsRequest(last', "sync", s) =>
         /\ Len(pending[s]) <= QueueCapacity => Updates(last') = pending[s]
         /\ subscriptions'[s].queue = <<>>
         /\ pending[s] = <<>> => Updates(last') = <<>>]_vars

C1_Witness ==
  /\ last.req.op = "sync"
  /\ last.req.sub \in DOMAIN subscriptions
  /\ Len(Updates(last)) = 2
  /\ Updates(last)[1].seq < Updates(last)[2].seq
  /\ subscriptions[last.req.sub].queue = <<>>

\* C2: the queue never holds more than QueueCapacity events, and a sync after
\* N > QueueCapacity events returns the most recent QueueCapacity of them
\* together with droppedCount = N - QueueCapacity.
C2_OverflowAccounting ==
  /\ [](\A s \in DOMAIN subscriptions :
          Len(subscriptions[s].queue) <= QueueCapacity)
  /\ [][\A s \in DOMAIN subscriptions :
          (IsRequest(last', "sync", s) /\ Len(pending[s]) > QueueCapacity) =>
            /\ Updates(last') = LastN(pending[s], QueueCapacity)
            /\ "droppedCount" \in DOMAIN last'.resp
            /\ last'.resp.droppedCount = Len(pending[s]) - QueueCapacity]_vars

\* C3: the events of one object come out of the syncs of a subscription in
\* the order of the writes that produced them: increasing stamps within one
\* sync result, and every stamp newer than those of the earlier syncs.
C3_PerObjectOrder ==
  [][\A s \in DOMAIN subscriptions :
       IsRequest(last', "sync", s) =>
         LET u == Updates(last') IN
           /\ \A i \in 1..Len(u) : u[i].seq > lastSeq[s][u[i].elementId]
           /\ \A i \in 1..Len(u) : \A j \in (i + 1)..Len(u) :
                u[i].elementId = u[j].elementId => u[i].seq < u[j].seq]_vars

C3_Witness ==
  /\ last.req.op = "sync"
  /\ Len(Updates(last)) = 2
  /\ Updates(last)[1].elementId = Updates(last)[2].elementId
  /\ Updates(last)[2].seq = Updates(last)[1].seq + 2

\* C4: a change event of object x is enqueued into a subscription exactly
\* when the subscription holds a registration (a, maxDepth), not unregistered
\* since, such that a is x or an ancestor of x within maxDepth.
C4_FanOutMatchesRegistration ==
  [][\A s \in DOMAIN subscriptions :
       (last'.req.op = "write" /\ last'.resp.status = 200) =>
         ((pending'[s] # pending[s]) <=>
            \E p \in watch[s] : Reaches(parentOf, p[1], p[2], last'.req.elem))]_vars

\* C6: deleting a subscription that is already deleted raises no error and
\* changes no state.
C6_DeleteIdempotent ==
  [][\A s \in (1..nextSub) \ DOMAIN subscriptions :
       IsRequest(last', "delete", s) =>
         /\ last'.resp.status = 204
         /\ subscriptions' = subscriptions]_vars

\* C7: a register call whose batch mixes resolvable and unresolvable ids
\* succeeds, adds exactly the resolvable ids to monitored_items and reports
\* exactly the unresolvable ones as skipped.
C7_RegisterPartialSuccess ==
  [][\A s \in DOMAIN subscriptions :
       (/\ IsRequest(last', "register", s)
        /\ Resolvable(last'.req.ids) # {}
        /\ Resolvable(last'.req.ids) # Range(last'.req.ids)) =>
         /\ last'.resp.status = 200
         /\ Range(subscriptions'[s].monitored_items) =
              Range(subscriptions[s].monitored_items) \cup Resolvable(last'.req.ids)
         /\ "skipped" \in DOMAIN last'.resp
         /\ last'.resp.skipped = Range(last'.req.ids) \ Resolvable(last'.req.ids)]_vars

\* C8: unregister removes every entry naming one of the given ids and keeps
\* the others; ids that are not watched change nothing; the queue and every
\* other subscription stay as they were, and the call is not an error.
C8_UnregisterFrame ==
  [][\A s \in DOMAIN subscriptions :
       IsRequest(last', "unregister", s) =>
         LET old == subscriptions[s].monitored_items
             new == subscriptions'[s].monitored_items
             ids == Range(last'.req.ids)
         IN /\ DOMAIN subscriptions' = DOMAIN subscriptions
            /\ Range(new) = Range(old) \ ids
            /\ Len(new) = Cardinality({i \in 1..Len(old) : old[i] \notin ids})
            /\ (ids \cap Range(old) = {}) => new = old
            /\ subscriptions'[s].queue = subscriptions[s].queue
            /\ \A t \in DOMAIN subscriptions \ {s} :
                 subscriptions'[t] = subscriptions[t]
            /\ last'.resp.status = 200]_vars

C8_Witness ==
  /\ last.req.op = "unregister"
  /\ last.req.ids # <<>>
  /\ DOMAIN subscriptions = SubIds
  /\ Len(subscriptions[last.req.sub].monitored_items) = MaxItems
  /\ subscriptions[last.req.sub].queue # <<>>
  /\ \A t \in SubIds : subscriptions[t].monitored_items # <<>>

\* C9: register, unregister, sync and get on a subscription id that was never
\* created or was deleted answer not-found and change no subscription.
C9_MissingSubscriptionNotFound ==
  [][\A s \in SubIds \ DOMAIN subscriptions :
       (/\ last'.req.sub = s
        /\ last'.req.op \in {"register", "unregister", "sync", "get"}
        /\ last'.req.op = "register" => last'.req.ids # <<>>) =>
         /\ last'.resp.status = 404
         /\ subscriptions' = subscriptions]_vars

Occurrences(q, ev) == Cardinality({i \in 1..Len(q) : q[i] = ev})

\* C5: whatever the interleaving of a sync with the enqueues of the fan-out
\* publisher, once both are done every published event was returned by
\* exactly one sync or is still queued (or was dropped as oldest on
\* overflow): none is lost, none is returned twice.
C5_SyncAtomicWithPublisher ==
  (syncer.pc = "idle" /\ publisher.pc = "idle") =>
    \A n \in 1..published :
      LET ev == [elementId |-> "line1", seq |-> n] IN
        Occurrences(returned, ev) + Occurrences(heap[qref], ev)
          + (IF ev \in overflowed THEN 1 ELSE 0) = 1

Acyclic(par) ==
  \A e \in DOMAIN par :
    \A k \in 1..Cardinality(DOMAIN par) : AncestorAt(par, e, k) # e

\* C10: the parent graph is acyclic after any sequence of createObject,
\* relink and updateObject; giving an object itself or one of its descendants
\* as parent fails with CycleDetected and leaves the graph unchanged.
C10_ParentGraphAcyclic ==
  /\ [](Acyclic(parentOf))
  /\ [][(/\ glast'.op \in {"relink", "update"}
         /\ glast'.elem \in DOMAIN parentOf
         /\ glast'.parent \in DescendantsOrSelf(parentOf, glast'.elem)) =>
          /\ glast'.status = 409
          /\ glast'.error = "CycleDetected"
          /\ parentOf' = parentOf]_vars

C10_Witness ==
  /\ glast.op = "relink"
  /\ glast.error = "CycleDetected"
  /\ glast.parent # glast.elem
  /\ parentOf[glast.elem] = Null
  /\ parentOf[glast.parent] = glast.elem

\* C11: whatever the interleaving of the check and commit steps of two
\* relinks running at the same time, the parent graph stays acyclic: two
\* relinks never both succeed in producing a cycle.
C11_ConcurrentRelinksAcyclic ==
  /\ Acyclic(parentOf)
  /\ \A t \in RelinkThreads :
       relinker[t].pc = "checked" =>
         ~WouldCycle(parentOf, relinker[t].elem, relinker[t].parent)

\* relink(A, B) has committed while relink(B, A) of the other thread was
\* waiting, and that one was then refused.
C11_Witness ==
  \E t, u \in RelinkThreads :
    /\ t # u
    /\ relinker[t].status = 200 /\ relinker[t].pc = "idle"
    /\ relinker[t].done = 1
    /\ relinker[u].status = 409 /\ relinker[u].done = 0
    /\ relinker[u].elem = relinker[t].parent
    /\ relinker[u].parent = relinker[t].elem
    /\ parentOf[relinker[t].elem] = relinker[t].parent

RECURSIVE BaseAt(_, _, _)
\* The type k levels up the base chain of t, Null past its end.
BaseAt(reg, t, k) ==
  IF k = 0 THEN t
  ELSE LET b == BaseAt(reg, t, k - 1)
       IN IF b \in DOMAIN reg THEN reg[b].baseTypeId ELSE Null

\* C12: in every reachable registry state every baseTypeId resolves to a
\* registered type and the base graph is acyclic, because a registration
\* with an unresolvable or cycle-closing base fails with InvalidBase and
\* leaves the registry unchanged.
C12_RegistryBasesValid ==
  /\ \A t \in DOMAIN types :
       /\ types[t].baseTypeId \in DOMAIN types \cup {Null}
       /\ \A k \in 1..Cardinality(DOMAIN types) : BaseAt(types, t, k) # t
  /\ tlast.op = "register" =>
       (tlast.base \in DOMAIN types \cup {Null} \/ tlast.error = "InvalidBase")

\* C13: after any committed mutation the stored isComposition flag of every
\* object is true exactly when some object has it as parentId.
C13_CompositionFlagCorrect ==
  \A o \in DOMAIN parentOf : isComposition[o] = HasChild(parentOf, o)

\* C14: after any sequence of committed createObject, updateObject, relink
\* and deleteObject every parentId is null or names an object of the store
\* (typeIds are only ever taken from the registry, and the code stores no
\* relationship target).
C14_ReferencesResolve ==
  \A o \in DOMAIN parentOf : parentOf[o] \in DOMAIN parentOf \cup {Null}

\* C15: deleteObject without the cascade flag on an object that has a child
\* fails with HasChildren and changes no record.
C15_DeleteWithChildrenRefused ==
  [][(/\ glast'.op = "delete"
      /\ glast'.elem \in DOMAIN parentOf
      /\ HasChild(parentOf, glast'.elem)) =>
       /\ glast'.status = 409
       /\ glast'.error = "HasChildren"
       /\ parentOf' = parentOf
       /\ isComposition' = isComposition]_vars

C15_Witness ==
  /\ glast.op = "delete"
  /\ glast.error = "HasChildren"
  /\ glast.elem \in DOMAIN parentOf
  /\ HasChild(parentOf, glast.elem)

\* The answer to a currentValue request that the step just gave.
Answered(depths) ==
  /\ vlast'.op = "current"
  /\ vlast'.status = 200
  /\ vlast'.depth \in depths
  /\ UNCHANGED <<points, parentOf, isComposition>>

\* C16: for an object with at least one written point, whatever the order
\* of the writes, currentValue returns a written point of maximum
\* timestamp, and among the points of that timestamp the one written last.
C16_CurrentValueIsNewest ==
  [][(Answered(ValueDepths) /\ PointsOf(points, vlast'.elem) # <<>>) =>
       LET ps == PointsOf(points, vlast'.elem) IN
         \E r \in vlast'.value :
           /\ r.elementId = vlast'.elem
           /\ \E i \in 1..Len(ps) :
                /\ r.point = <<ps[i]>>
                /\ \A j \in 1..Len(ps) :
                     /\ ps[j].timestamp <= ps[i].timestamp
                     /\ ps[j].timestamp = ps[i].timestamp => j <= i]_vars

\* Two points share the maximum timestamp, an older one was written after
\* a newer one, and the current value was asked for.
C16_Witness ==
  /\ vlast.op = "current" /\ vlast.status = 200
  /\ LET ps == PointsOf(points, vlast.elem) IN
       /\ Len(ps) = 2
       /\ ps[1].timestamp >= ps[2].timestamp
       /\ \E r \in vlast.value :
            r.elementId = vlast.elem /\ r.point = <<Latest(ps)>>

\* C17: currentValue(id, 1) holds the value of id alone; currentValue(id, 0)
\* holds the current value of every transitive descendant of id, each
\* nested under its parent.
C17_DepthBoundedComposition ==
  /\ [][Answered({1}) =>
          {r.elementId : r \in vlast'.value} = {vlast'.elem}]_vars
  /\ [][Answered({0}) =>
          /\ {r.elementId : r \in vlast'.value}
               = DescendantsOrSelf(parentOf, vlast'.elem)
          /\ \A r \in vlast'.value :
               /\ r.point = CurrentPoint(points, r.elementId)
               /\ r.elementId # vlast'.elem =>
                    r.under = parentOf[r.elementId]]_vars

\* x / y rounded up.
CeilDiv(x, y) == (x + y - 1) \div y

\* An aggregated history over a proper range was answered.
Aggregated ==
  /\ hlast.op = "entity_data"
  /\ hlast.status = 200
  /\ hlast.method # "none"
  /\ hlast.start[1] < hlast.end[1]

\* C18: an aggregated history over [start, end] has exactly
\* ceil((end - start) / interval) buckets, one per interval of the range
\* whether or not a point falls in it.
C18_BucketsContiguous ==
  Aggregated =>
    Len(hlast.rows) = CeilDiv(hlast.end[1] - hlast.start[1], hlast.interval)

\* The Good points of the series that a bucket of the range holds.
GoodIn(b) ==
  {i \in 1..Len(hpoints) :
     /\ IsGood(hpoints[i])
     /\ InRange(hpoints[i], hlast.start, hlast.end)
     /\ bucket_start_time(hpoints[i].timestamp, hlast.interval) = b}

\* C19: every bucket of the range without a Good point, be its points all
\* of another quality or be it empty, is in the result with quality Bad and
\* value null.
C19_EmptyBucketsReportedBad ==
  Aggregated =>
    \A t \in hlast.start[1]..hlast.end[1] :
      LET b == bucket_start_time(t, hlast.interval) IN
        GoodIn(b) = {} =>
          \E i \in 1..Len(hlast.rows) :
            /\ hlast.rows[i].timestamp = b
            /\ hlast.rows[i].quality = "Bad"
            /\ hlast.rows[i].value = <<>>

\* C20: a history request whose start lies after its end, given or
\* defaulted, fails with InvalidRange and returns no points.
C20_InvalidRangeRejected ==
  (/\ hlast.op \in {"entity_data", "object_history"}
   /\ hlast.start # <<>> /\ hlast.end # <<>>
   /\ hlast.start[1] > hlast.end[1]) =>
    /\ hlast.status = 422
    /\ hlast.error = "InvalidRange"
    /\ hlast.rows = <<>>

RECURSIVE BfsFrom(_, _, _, _)
\* The objects reached from a frontier level by level, each once, a level
\* in lexical order; levels = 0 walks until nothing new is reached.
BfsFrom(frontier, visited, levels, level) ==
  LET next == UNION {edges[x] : x \in frontier} \ visited IN
    IF next = {} \/ (levels # 0 /\ level > levels) THEN <<>>
    ELSE ByRank(next) \o BfsFrom(next, visited \cup next, levels, level + 1)

\* C21: getRelated(elementId, relationshipType, depth) answers exactly the
\* objects within depth breadth-first levels of elementId (all reachable
\* ones for depth 0), each once, level by level and in lexical order within
\* a level, also when the edges form a cycle.
C21_RelatedBreadthFirst ==
  (/\ rlast.op = "related"
   /\ Len(rlast.ids) = 1
   /\ rlast.rel \in RelationshipTypes \cup {Null}) =>
    rlast.rows = BfsFrom({rlast.ids[1]}, {rlast.ids[1]}, rlast.depth, 1)

\* The base chain of t ends at a root: every base resolves, none repeats.
WellFormedChain(reg, t) ==
  /\ t \in DOMAIN reg
  /\ \A k \in 0..Cardinality(DOMAIN reg) :
       BaseAt(reg, t, k) \in DOMAIN reg \cup {Null}
  /\ BaseAt(reg, t, Cardinality(DOMAIN reg)) = Null

\* The types of the chain of t that define the property n, as their distance
\* from t.
Definers(reg, t, n) ==
  {k \in 0..Cardinality(DOMAIN reg) :
     /\ BaseAt(reg, t, k) \in DOMAIN reg
     /\ n \in DOMAIN reg[BaseAt(reg, t, k)].properties}

\* The definition of n by the definer nearest to t.
Nearest(reg, t, n) ==
  LET k == CHOOSE i \in Definers(reg, t, n) :
             \A j \in Definers(reg, t, n) : i <= j
  IN reg[BaseAt(reg, t, k)].properties[n]

\* The last request asked for a type with a well-formed chain.
SchemaAnswered(op) ==
  /\ slast.op = op
  /\ WellFormedChain(types, slast.elem)

\* C22: the effective schema of a type holds every property defined along
\* its base chain, each with the definition of the type nearest the leaf,
\* whatever the order of the registrations; this for the merged schema and
\* for the effective attributes.
C22_EffectiveSchemaMerge ==
  /\ SchemaAnswered("merged_schema") =>
       /\ ~slast.raised
       /\ DOMAIN slast.properties =
            {n \in Range(PropertyNames) : Definers(types, slast.elem, n) # {}}
       /\ \A n \in DOMAIN slast.properties :
            slast.properties[n] = Nearest(types, slast.elem, n)
  /\ SchemaAnswered("effective_attributes") =>
       /\ ~slast.raised
       /\ \A n \in Range(PropertyNames) :
            LET at == {i \in 1..Len(slast.attributes) :
                         slast.attributes[i].name = n}
            IN IF Definers(types, slast.elem, n) = {} THEN at = {}
               ELSE /\ Cardinality(at) = 1
                    /\ \A i \in at :
                         slast.attributes[i].type
                           = Nearest(types, slast.elem, n)

\* C23: a subscription becomes Expired only from Active, with no stream
\* channel connected and the idle timeout elapsed since its last sync or
\* stream activity; Closed and Expired are terminal.
C23_ExpiryOnlyWhenIdle ==
  [][\A s \in SubIds :
       /\ (sstate'[s] = "Expired" /\ sstate[s] # "Expired") =>
            /\ sstate[s] = "Active"
            /\ ~connected[s]
            /\ idle[s] >= IdleTimeout
       /\ sstate[s] \in {"Closed", "Expired"} => sstate'[s] = sstate[s]]_vars

\* One subscription has expired while another, as idle, is kept by its open
\* channel.
C23_Witness ==
  \E s, r \in SubIds :
    /\ sstate[s] = "Expired"
    /\ sstate[r] = "Active"
    /\ connected[r]
    /\ idle[r] >= IdleTimeout

\* The events of a queue are in emission order.
Increasing(q) == \A i \in 1..(Len(q) - 1) : q[i] < q[i + 1]

\* C24: a client disconnect leaves the subscription Active with its queue;
\* matching events accumulate in the bounded queue while no channel takes
\* them; a reconnect, a sync or the writer delivers from the queue head, in
\* order.
C24_DisconnectKeepsQueue ==
  [][LET s == stlast'.sub
     IN /\ stlast'.op = "disconnect" =>
             /\ sstate'[s] = "Active"
             /\ ~connected'[s]
             /\ squeue'[s] = squeue[s]
        /\ stlast'.op = "publish" =>
             \A t \in stlast'.targets :
               (sstate[t] = "Active" /\ ~connected[t]) =>
                 /\ squeue'[t]
                      = LastN(Append(squeue[t], emitted'), QueueCapacity)
                 /\ Len(squeue'[t]) <= QueueCapacity
                 /\ Increasing(squeue'[t])
        /\ stlast'.op \in {"connect", "sync"} =>
             /\ stlast'.items = squeue[s]
             /\ Increasing(stlast'.items)
             /\ squeue'[s] = <<>>
        /\ stlast'.op = "push" =>
             /\ stlast'.items = <<Head(squeue[s])>>
             /\ squeue'[s] = Tail(squeue[s])]_vars

\* A client has disconnected from a subscription whose queue holds events.
C24_Witness ==
  /\ stlast.op = "disconnect"
  /\ sstate[stlast.sub] = "Active"
  /\ squeue[stlast.sub] # <<>>

\* C25: whatever the other consumers do, every event handed to a
\* subscription is eventually enqueued or pushed for it, and pushed to its
\* consumer if that consumer keeps reading; no queue exceeds its bound.
C25_SlowConsumerIsolated ==
  /\ [](\A s \in SubIds : Len(fqueue[s]) <= QueueCapacity)
  /\ \A b \in SubIds : \A ev \in 1..MaxFanoutEvents :
       /\ (ev \in Range(inbox[b])) ~> (ev \in accepted[b])
       /\ ([]~stalled[b]) =>
            ((ev \in Range(inbox[b])) ~> (ev \in Range(fpushed[b])))

\* One consumer has stopped reading with a full queue while the other has
\* received an event published after the first one stalled.
C25_Witness ==
  \E a, b \in SubIds :
    /\ stalled[a]
    /\ Len(fqueue[a]) = QueueCapacity
    /\ ~stalled[b]
    /\ fpushed[b] # <<>>
    /\ \A ev \in Range(fqueue[a]) : ev < fpushed[b][Len(fpushed[b])]

BucketOf(p, interval) == bucket_start_time(fromisoformat(p), interval)

\* C27: the buckets aggregate_time_series emits are exactly the buckets of
\* the input points, floor(timestamp / interval) * interval, one row each,
\* in strictly increasing order.
C27_AggregationPartitions ==
  alast.op = "aggregate" =>
    /\ \A i \in 1..Len(apoints) :
         Cardinality({j \in 1..Len(alast.rows) :
                        alast.rows[j].timestamp
                          = BucketOf(apoints[i], alast.interval)}) = 1
    /\ \A j \in 1..Len(alast.rows) :
         \E i \in 1..Len(apoints) :
           alast.rows[j].timestamp = BucketOf(apoints[i], alast.interval)
    /\ \A j \in 1..(Len(alast.rows) - 1) :
         alast.rows[j].timestamp < alast.rows[j + 1].timestamp

\* The aggregate of a non-empty list of values, a quotient as <<sum, len>>.
AggregateOf(method, values) ==
  CASE method = "avg" -> <<SumOf(values), Len(values)>>
    [] method = "min" -> <<MinOf(values)>>
    [] method = "max" -> <<MaxOf(values)>>
    [] method = "sum" -> <<SumOf(values)>>
    [] method = "count" -> <<Len(values)>>

\* Whether two values, each <<v>> or a quotient <<sum, len>>, are the same
\* number.
SameNumber(x, y) ==
  LET Den(v) == IF Len(v) = 2 THEN v[2] ELSE 1
  IN /\ x # <<>>
     /\ y # <<>>
     /\ x[1] * Den(y) = y[1] * Den(x)

\* The values of the Good points of the bucket that starts at b.
GoodValues(b) ==
  LET InBucket(p) == IsGood(p) /\ BucketOf(p, alast.interval) = b
  IN ValuesOf(SelectSeq(apoints, InBucket))

\* C28: by the engine and by the database, a bucket's count is the number of
\* its Good points and, when it has one, its value is the method's aggregate
\* of the values of exactly those points.
C28_GoodPointsOnly ==
  alast.op \in {"aggregate", "sql"} =>
    \A j \in 1..Len(alast.rows) :
      LET values == GoodValues(alast.rows[j].timestamp)
      IN /\ alast.rows[j].count = Len(values)
         /\ values # <<>> =>
              SameNumber(alast.rows[j].value,
                         AggregateOf(alast.method, values))

\* C29: in every window of windowMs milliseconds at most maxRequests
\* throttle() calls are let through.
C29_RateLimitEnforced ==
  \A t \in 0..MaxClock :
    Cardinality({i \in 1..Len(resolved) :
                   t <= resolved[i] /\ resolved[i] < t + windowMs})
      <= maxRequests

\* Every attempt so far was answered 429.
AllThrottled(statuses) ==
  \A k \in 1..Len(statuses) : statuses[k] = 429

\* C30: a call ends, after at most maxRetries attempts; it returns the first
\* response that is not a 429, attempts nothing after it, never returns a
\* 429, and throws 'Max retries exceeded' when maxRetries attempts were all
\* answered 429.
C30_BackoffTerminates ==
  /\ (blast.pc # "idle") ~> (blast.pc \in {"returned", "thrown"})
  /\ [][blast.pc \in {"returned", "thrown"} => blast' = blast]_vars
  /\ [](/\ Len(blast.statuses) <= blast.maxRetries
        /\ blast.pc = "returned" =>
             /\ blast.status # 429
             /\ blast.status = blast.statuses[Len(blast.statuses)]
             /\ AllThrottled(SubSeq(blast.statuses, 1,
                                     Len(blast.statuses) - 1))
        /\ (/\ blast.pc \in {"returned", "thrown"}
            /\ Len(blast.statuses) = blast.maxRetries
            /\ AllThrottled(blast.statuses)) =>
             /\ blast.pc = "thrown"
             /\ blast.error = "Max retries exceeded")

\* MaxRetries attempts were all answered 429 and the call has thrown.
C30_Witness ==
  /\ blast.pc = "thrown"
  /\ blast.error = "Max retries exceeded"
  /\ blast.maxRetries = MaxRetries
  /\ Len(blast.statuses) = MaxRetries
====
